---- MODULE Spec2Model ----
(***************************************************************************)
(* A model of open_elevation's ElevationService                            *)
(* (src/src/open_elevation/elevation/service.py): the spatial index built  *)
(* from the tile store, the LRU result cache, get_elevation and            *)
(* process_location.                                                       *)
(*                                                                         *)
(* Coordinates are fixed-point numbers: an integer n stands for n/100      *)
(* degrees, so 5050 is 50.5 and 55 is 0.55.  Elevations are integers.      *)
(* Strings are sequences of one-character strings.                         *)
(***************************************************************************)
EXTENDS Integers, Sequences, FiniteSets, TLC

VARIABLES
    tif_files,      \* the tile store: the .tif paths under tif_directory, in os.walk order
    file_state,     \* per path: "ok", "truncated" (opens, reads fail) or "unopenable"
    tif_directory,  \* whether Settings.tif_directory exists
    index_file,     \* index_directory and the persisted index spatial_index(.dat) in it
    spatial_index,  \* self._spatial_index: None, or the inserted entries
    index_counter,  \* self._index_counter
    cache,          \* self._cache, an LRUCache: entries from least to most recently used
    request,        \* the raw location a caller asks process_location about
    app,            \* main.py: how far the application's lifespan has come
    tasks,          \* routes.py: the executor tasks of the lookup request in flight
    finished,       \* the tasks that have ended, in the order they ended
    response,       \* what the lookup route has answered, if it has
    walk,           \* _index_tif_files while it runs: the files it has yet to visit
    zip_file,       \* download: the archive handed to _safe_extract, and its destination
    extraction,     \* download: what _safe_extract raised, and the files it wrote
    grid,           \* download: generate_all_tiles while it runs: its loop variables
    last            \* the most recent call on the service: its arguments, what it
                    \* returned or raised, the get_elevation calls and index queries
                    \* it made, the files it opened, the keys it evicted

\* The variables of the application around the service.
route == <<app, tasks, finished, response>>

\* The variables of the download scripts.
download == <<zip_file, extraction, grid>>

vars == <<tif_files, file_state, tif_directory, index_file, spatial_index,
          index_counter, cache, request, last, route, walk, download>>

(***************************************************************************)
(* Bounds of the model.                                                    *)
(***************************************************************************)
\* The number of tile files in the store.
MaxTiles == 2
\* Settings.cache_max_size (100000 by default, 100 in the tests).
cache_max_size == 2

\* The comma-separated components of a raw location string.
MaxParts == 3

\* The locations of one lookup request.
MaxBatch == 2

\* The members of one downloaded archive.
MaxMembers == 2

\* Settings.max_workers as the tests set it: the threads of the executor.
max_workers == 2

\* One degree in the model's unit.
Scale == 10 * 10

(***************************************************************************)
(* The tile files a store may hold.  Each is a north-up raster: its affine *)
(* transform is (left, top, px, py), its grid is width x height pixels.    *)
(* TileA and TileB are adjacent cells sharing the edge lon = 0.04; TileC   *)
(* overlaps both.  The stored sample of pixel (row, col) is                *)
(* base + colstep * col + rowstep * row, except at the void pixels, which  *)
(* store the no-data value the file declares (dataset.nodata).             *)
(***************************************************************************)
\* The no-data value the tile files declare.
Sentinel == 0 - 9999

TileA == [path |-> "a.tif", left |-> 0, top |-> 4, px |-> 2, py |-> 2,
          width |-> 2, height |-> 2, base |-> 100, colstep |-> 10, rowstep |-> 1,
          nodata |-> Sentinel, void |-> {}]
TileB == [path |-> "b.tif", left |-> 4, top |-> 4, px |-> 2, py |-> 2,
          width |-> 2, height |-> 2, base |-> 200, colstep |-> 10, rowstep |-> 1,
          nodata |-> Sentinel, void |-> {}]
TileC == [path |-> "c.tif", left |-> 2, top |-> 4, px |-> 2, py |-> 2,
          width |-> 2, height |-> 2, base |-> 300, colstep |-> 10, rowstep |-> 1,
          nodata |-> Sentinel, void |-> {<<0, 0>>}]

Catalogue == {TileA, TileB, TileC}

Paths == {t.path : t \in Catalogue}

\* The fixture of the tests: 10x10 pixels of 0.1 degrees over longitude 0.0 to
\* 1.0 and latitude 50.0 to 51.0, the columns valued 100, 110, ..., 190.
TestElevation ==
    [path |-> "test_elevation.tif", left |-> 0, top |-> 51 * Scale,
     px |-> 10, py |-> 10, width |-> 10, height |-> 10,
     base |-> 100, colstep |-> 10, rowstep |-> 0,
     nodata |-> Sentinel, void |-> {}]

TileAt(path) == CHOOSE t \in Catalogue \cup {TestElevation} : t.path = path

\* The band's stored sample at a pixel of the grid.
StoredSample(t, row, col) ==
    IF <<row, col>> \in t.void THEN t.nodata
    ELSE t.base + t.colstep * col + t.rowstep * row

\* The coordinates get_elevation is called with.
Lats == {0, 1, 3}
Lons == {1, 3, 4, 9}

FileStates == {"ok", "truncated", "unopenable"}

Range(s) == {s[i] : i \in 1..Len(s)}

\* The sequences of distinct paths of length at most n: what os.walk can yield.
Stores(n) ==
    {s \in UNION {[1..k -> Paths] : k \in 0..n} :
        \A i, j \in 1..Len(s) : i # j => s[i] # s[j]}

(***************************************************************************)
(* rasterio: what the service reads from a tile file.                      *)
(***************************************************************************)
\* src.bounds of an opened dataset: the rectangle of its grid.
DatasetBounds(t) ==
    [left |-> t.left, bottom |-> t.top - t.height * t.py,
     right |-> t.left + t.width * t.px, top |-> t.top]

\* dataset.index(x, y): the inverse of the affine transform, floored.
DatasetIndex(t, x, y) ==
    [row |-> (t.top - y) \div t.py, col |-> (x - t.left) \div t.px]

InGrid(t, rc) ==
    /\ 0 <= rc.row /\ rc.row < t.height
    /\ 0 <= rc.col /\ rc.col < t.width

\* The body of the try block of get_elevation for one candidate file: open it,
\* map the point to a pixel and read the 1x1 window there.  The set of outcomes:
\* an unopenable file fails in rasterio.open and a truncated one in dataset.read,
\* both with RasterioIOError.  A window off the grid is not a read rasterio
\* defines the same way in every version: it is cropped to an empty array, whose
\* [0, 0] raises IndexError, or it is refused by GDAL with RasterioIOError.
ReadPixel(path, longitude, latitude) ==
    LET t == TileAt(path)
        rc == DatasetIndex(t, longitude, latitude)
    IN  IF file_state[path] = "unopenable"
        THEN {[kind |-> "RasterioIOError", value |-> 0]}
        ELSE IF ~InGrid(t, rc)
        THEN {[kind |-> "IndexError", value |-> 0],
              [kind |-> "RasterioIOError", value |-> 0]}
        ELSE IF file_state[path] = "truncated"
        THEN {[kind |-> "RasterioIOError", value |-> 0]}
        ELSE {[kind |-> "value", value |-> StoredSample(t, rc.row, rc.col)]}

(***************************************************************************)
(* rtree: the spatial index.                                               *)
(***************************************************************************)
\* index.insert(id, (left, bottom, right, top), obj=filepath)
IndexEntry(id, b, filepath) ==
    [id |-> id, left |-> b.left, bottom |-> b.bottom, right |-> b.right,
     top |-> b.top, obj |-> filepath]

\* A variant with half-open intervals: the right and top edges are outside.
IntersectsHalfOpen(e, minx, miny, maxx, maxy) ==
    /\ e.left <= maxx /\ minx < e.right
    /\ e.bottom <= maxy /\ miny < e.top

\* Whether an entry's rectangle meets the query rectangle; the intervals are closed.
Intersects(e, minx, miny, maxx, maxy) ==
    /\ e.left <= maxx /\ minx <= e.right
    /\ e.bottom <= maxy /\ miny <= e.top

\* index.intersection((minx, miny, maxx, maxy), objects=True).  The entries come
\* in insertion order; Init draws the store in every order, so every order of the
\* candidates is some store's.
Intersection(entries, minx, miny, maxx, maxy) ==
    SelectSeq(entries, LAMBDA e : Intersects(e, minx, miny, maxx, maxy))

\* A variant that ends the walk at the first file that cannot be opened.
RECURSIVE IndexTifFilesAborting(_, _, _)
IndexTifFilesAborting(entries, counter, files) ==
    IF files = <<>> THEN [entries |-> entries, counter |-> counter]
    ELSE LET filepath == Head(files)
         IN  IF file_state[filepath] = "unopenable"
             THEN [entries |-> entries, counter |-> counter]
             ELSE IndexTifFilesAborting(
                      Append(entries,
                             IndexEntry(counter + 1, DatasetBounds(TileAt(filepath)),
                                        filepath)),
                      counter + 1, Tail(files))

\* A variant that counts every walked file, opened or not.
RECURSIVE IndexTifFilesCountingAll(_, _, _)
IndexTifFilesCountingAll(entries, counter, files) ==
    IF files = <<>> THEN [entries |-> entries, counter |-> counter]
    ELSE LET filepath == Head(files)
         IN  IF file_state[filepath] = "unopenable"
             THEN IndexTifFilesCountingAll(entries, counter + 1, Tail(files))
             ELSE IndexTifFilesCountingAll(
                      Append(entries,
                             IndexEntry(counter + 1, DatasetBounds(TileAt(filepath)),
                                        filepath)),
                      counter + 1, Tail(files))

\* The loop of _index_tif_files over the walked files: a file that opens is
\* given the next id and inserted, one that raises RasterioIOError is logged
\* and skipped.
RECURSIVE IndexTifFiles(_, _, _)
IndexTifFiles(entries, counter, files) ==
    IF files = <<>> THEN [entries |-> entries, counter |-> counter]
    ELSE LET filepath == Head(files)
         IN  IF file_state[filepath] = "unopenable"
             THEN IndexTifFiles(entries, counter, Tail(files))
             ELSE IndexTifFiles(
                      Append(entries,
                             IndexEntry(counter + 1, DatasetBounds(TileAt(filepath)),
                                        filepath)),
                      counter + 1, Tail(files))

(***************************************************************************)
(* cachetools.LRUCache, as the service uses it.                            *)
(***************************************************************************)
CacheKeys(c) == {c[i].key : i \in 1..Len(c)}

\* cache_key in self._cache: membership does not touch the recency order.
CacheContains(c, key) == key \in CacheKeys(c)

CachePosition(c, key) == CHOOSE i \in 1..Len(c) : c[i].key = key

CacheWithout(c, key) == SelectSeq(c, LAMBDA e : e.key # key)

\* A variant whose read returns the value of the least recently used entry.
CacheGetItemOldest(c, key) ==
    [value |-> c[1].value, cache |-> Append(CacheWithout(c, key), c[1])]

\* A variant whose read leaves the recency order alone.
CacheGetItemNoTouch(c, key) ==
    [value |-> c[CachePosition(c, key)].value, cache |-> c]

\* self._cache[cache_key] read: the value, and the key becomes the most recently used.
CacheGetItem(c, key) ==
    LET e == c[CachePosition(c, key)]
    IN  [value |-> e.value, cache |-> Append(CacheWithout(c, key), e)]

\* A variant that evicts from the most recently used end.
RECURSIVE CacheEvictNewest(_)
CacheEvictNewest(c) ==
    IF Len(c) + 1 > cache_max_size /\ c # <<>>
    THEN CacheEvictNewest(SubSeq(c, 1, Len(c) - 1)) ELSE c

\* popitem() until the new entry fits.
RECURSIVE CacheEvict(_)
CacheEvict(c) ==
    IF Len(c) + 1 > cache_max_size /\ c # <<>> THEN CacheEvict(Tail(c)) ELSE c

\* self._cache[cache_key] = elevation: a new key evicts from the least recently
\* used end while the cache is full; the key becomes the most recently used.
CacheSetItem(c, key, value) ==
    IF CacheContains(c, key)
    THEN Append(CacheWithout(c, key), [key |-> key, value |-> value])
    ELSE Append(CacheEvict(c), [key |-> key, value |-> value])

(***************************************************************************)
(* exceptions.py: what a call can raise.                                   *)
(***************************************************************************)
NoError == [kind |-> "none", message |-> "", latitude |-> 0, longitude |-> 0]

\* A variant with the two coordinates exchanged.
ElevationNotFoundErrorSwapped(latitude, longitude) ==
    [kind |-> "ElevationNotFoundError", message |-> "Elevation data not found",
     latitude |-> longitude, longitude |-> latitude]

\* ElevationNotFoundError(latitude, longitude) keeps the coordinates it is given.
ElevationNotFoundError(latitude, longitude) ==
    [kind |-> "ElevationNotFoundError", message |-> "Elevation data not found",
     latitude |-> latitude, longitude |-> longitude]

ElevationReadError ==
    [kind |-> "ElevationReadError", message |-> "Error reading elevation",
     latitude |-> 0, longitude |-> 0]

IndexBuildError ==
    [kind |-> "IndexBuildError", message |-> "Spatial index not initialized",
     latitude |-> 0, longitude |-> 0]

\* The three messages process_location gives an InvalidCoordinateError.
InvalidCoordinateError(message) ==
    [kind |-> "InvalidCoordinateError", message |-> message,
     latitude |-> 0, longitude |-> 0]

\* Not of exceptions.py: what escapes get_elevation when the window is off the grid.
IndexError ==
    [kind |-> "IndexError", message |-> "index 0 is out of bounds",
     latitude |-> 0, longitude |-> 0]

(***************************************************************************)
(* ElevationService.get_elevation.  A result is what the call returns or   *)
(* raises, the cache it leaves, and what it did on the way: the index      *)
(* queries it made and the tile files it opened.                           *)
(***************************************************************************)
Returned(elevation, c, queries, opened) ==
    [outcome |-> "ok", value |-> elevation, error |-> NoError, cache |-> c,
     index_queries |-> queries, opened |-> opened]

Raised(error, c, queries, opened) ==
    [outcome |-> error.kind, value |-> 0, error |-> error, cache |-> c,
     index_queries |-> queries, opened |-> opened]

\* Lines 118-119: the cached value, read through LRUCache.__getitem__.
CacheHit(c, cache_key) ==
    LET got == CacheGetItem(c, cache_key)
    IN  Returned(got.value, got.cache, 0, <<>>)

\* A variant that also caches a lookup that found no tile.
ReadMatchesCachingMisses(c, matches, cache_key, latitude, longitude) ==
    IF matches = <<>>
    THEN {Raised(ElevationNotFoundError(latitude, longitude),
                 CacheSetItem(c, cache_key, 0), 1, <<>>)}
    ELSE LET tif_file == Head(matches).obj
         IN  {CASE r.kind = "value" ->
                     Returned(r.value, CacheSetItem(c, cache_key, r.value), 1,
                              <<tif_file>>)
                [] r.kind = "RasterioIOError" ->
                     Raised(ElevationReadError, c, 1, <<tif_file>>)
                [] OTHER ->
                     Raised(IndexError, c, 1, <<tif_file>>)
              : r \in ReadPixel(tif_file, longitude, latitude)}

\* Lines 131-149: the loop over the matches.  Every path through its body
\* returns or raises, so only the first match is ever opened; with no match the
\* loop is skipped and the call raises ElevationNotFoundError.
ReadMatches(c, matches, cache_key, latitude, longitude) ==
    IF matches = <<>>
    THEN {Raised(ElevationNotFoundError(latitude, longitude), c, 1, <<>>)}
    ELSE LET tif_file == Head(matches).obj
         IN  {CASE r.kind = "value" ->
                     Returned(r.value, CacheSetItem(c, cache_key, r.value), 1,
                              <<tif_file>>)
                [] r.kind = "RasterioIOError" ->
                     Raised(ElevationReadError, c, 1, <<tif_file>>)
                [] OTHER ->
                     Raised(IndexError, c, 1, <<tif_file>>)
              : r \in ReadPixel(tif_file, longitude, latitude)}

\* A variant that never consults the cache.
get_elevation_uncached(latitude, longitude) ==
    IF ~spatial_index.initialized
    THEN {Raised(IndexBuildError, cache, 0, <<>>)}
    ELSE ReadMatches(cache,
                     Intersection(spatial_index.entries,
                                  longitude, latitude, longitude, latitude),
                     <<latitude, longitude>>, latitude, longitude)

\* The results get_elevation(latitude, longitude) can have in the current state.
get_elevation(latitude, longitude) ==
    LET cache_key == <<latitude, longitude>>
    IN  IF CacheContains(cache, cache_key)
        THEN {CacheHit(cache, cache_key)}
        ELSE IF ~spatial_index.initialized
        THEN {Raised(IndexBuildError, cache, 0, <<>>)}
        ELSE ReadMatches(cache,
                         Intersection(spatial_index.entries,
                                      longitude, latitude, longitude, latitude),
                         cache_key, latitude, longitude)

(***************************************************************************)
(* The state after ElevationService(settings), and the calls.              *)
(***************************************************************************)
NoIndex == [initialized |-> FALSE, entries |-> <<>>]

\* schemas.py: ElevationResult(latitude=..., longitude=..., elevation=...)
ElevationResult(latitude, longitude, elevation) ==
    [returned |-> TRUE, latitude |-> latitude, longitude |-> longitude,
     elevation |-> elevation]

NoResult == [returned |-> FALSE, latitude |-> 0, longitude |-> 0, elevation |-> 0]

NoCall ==
    [op |-> "none", location |-> <<>>, lookups |-> 0,
     latitude |-> 0, longitude |-> 0,
     outcome |-> "none", value |-> 0, error |-> NoError, result |-> NoResult,
     index_queries |-> 0, opened |-> <<>>, evicted |-> {}]

NoResponse == [status |-> 0, detail |-> "", results |-> <<>>]

\* The service used on its own, without the application, as the tests of
\* service.py use it.
Detached ==
    /\ app = "none"
    /\ tasks = <<>>
    /\ finished = <<>>
    /\ response = NoResponse

\* No walk of the tile store is under way.
NoWalk == [active |-> FALSE, files |-> <<>>]

\* The download scripts are not running: they are programs of their own,
\* run before the service is deployed.
NoArchive == [destination |-> <<>>, namelist |-> <<>>]

NoExtraction == [outcome |-> "none", member |-> <<>>, written |-> {}]

NoGrid == [lat |-> 0, lon |-> 0, tile_names |-> <<>>, returned |-> FALSE]

NoDownload ==
    /\ zip_file = NoArchive
    /\ extraction = NoExtraction
    /\ grid = NoGrid

\* __init__: an empty cache, no index, the counter at 0.
Constructed ==
    /\ spatial_index = NoIndex
    /\ index_counter = 0
    /\ cache = <<>>
    /\ last = NoCall
    /\ walk = NoWalk

\* A tile store and a fresh deployment: no index has been persisted yet.
Init ==
    /\ tif_directory \in BOOLEAN
    /\ tif_files \in (IF tif_directory THEN Stores(MaxTiles) ELSE {<<>>})
    /\ file_state \in [Range(tif_files) -> FileStates]
    /\ index_file = [directory |-> FALSE, exists |-> FALSE, entries |-> <<>>]
    /\ request = <<>>
    /\ Constructed
    /\ Detached
    /\ NoDownload

\* A variant that creates the index directory before it looks for the tiles.
IndexDirectoryOnFailureCreated == [index_file EXCEPT !.directory = TRUE]

\* Lines 55-56 come before os.makedirs at line 58: when the tile directory is
\* missing the call raises with the disk as it was.
IndexDirectoryOnFailure == index_file

\* build_or_load_index: what the call does to the service and to the disk.
build_or_load_index ==
    /\ IF ~tif_directory
       THEN /\ last' = [NoCall EXCEPT !.op = "build_or_load_index",
                                      !.outcome = IndexBuildError.kind,
                                      !.error = [IndexBuildError EXCEPT
                                          !.message = "TIF directory not found"]]
            /\ index_file' = IndexDirectoryOnFailure
            /\ UNCHANGED <<spatial_index, index_counter>>
       ELSE IF index_file.exists
       THEN /\ spatial_index' = [initialized |-> TRUE, entries |-> index_file.entries]
            /\ index_file' = [index_file EXCEPT !.directory = TRUE]
            /\ last' = [NoCall EXCEPT !.op = "build_or_load_index", !.outcome = "ok"]
            /\ UNCHANGED index_counter
       ELSE LET built == IndexTifFiles(<<>>, index_counter, tif_files)
            IN  /\ spatial_index' = [initialized |-> TRUE, entries |-> built.entries]
                /\ index_counter' = built.counter
                /\ index_file' = [directory |-> TRUE, exists |-> TRUE,
                                  entries |-> built.entries]
                /\ last' = [NoCall EXCEPT !.op = "build_or_load_index",
                                          !.outcome = "ok"]
    /\ UNCHANGED <<tif_files, file_state, tif_directory, cache, request, walk,
                   download>>

\* build_or_load_index, called once on a service (main.py, lifespan).
BuildOrLoadIndex ==
    /\ ~spatial_index.initialized
    /\ last.op # "build_or_load_index"
    /\ build_or_load_index
    /\ UNCHANGED route

\* A call of get_elevation with any coordinates.
GetElevation ==
    \E latitude \in Lats, longitude \in Lons :
        \E r \in get_elevation(latitude, longitude) :
            /\ cache' = r.cache
            /\ last' = [NoCall EXCEPT !.op = "get_elevation",
                                      !.lookups = 1,
                                      !.latitude = latitude,
                                      !.longitude = longitude,
                                      !.outcome = r.outcome,
                                      !.value = r.value,
                                      !.error = r.error,
                                      !.index_queries = r.index_queries,
                                      !.opened = r.opened,
                                      !.evicted = CacheKeys(cache) \ CacheKeys(r.cache)]
            /\ UNCHANGED <<tif_files, file_state, tif_directory, index_file,
                           spatial_index, index_counter, request, route, walk, download>>

\* The process ends and a new one constructs its service; the disk stays.
Restart ==
    /\ spatial_index.initialized
    /\ spatial_index' = NoIndex
    /\ index_counter' = 0
    /\ cache' = <<>>
    /\ last' = NoCall
    /\ UNCHANGED <<tif_files, file_state, tif_directory, index_file, request,
                   route, walk, download>>

Next == BuildOrLoadIndex \/ GetElevation \/ Restart

Spec == Init /\ [][Next]_vars

(***************************************************************************)
(* The build step by step, and processes that end while it runs.  Line 70  *)
(* creates the index and its files on disk, and the inserts of the walk    *)
(* reach the disk as rtree writes its pages back, so a process that is     *)
(* killed during the walk leaves spatial_index.dat with some of the        *)
(* entries inserted so far, in insertion order.  (A file the kill leaves   *)
(* unreadable is not among the outcomes modelled.)  The thread that calls  *)
(* build_or_load_index is the one that goes on to the lookups, so no       *)
(* lookup is made while the walk runs.                                     *)
(***************************************************************************)
InitBuild ==
    /\ tif_directory = TRUE
    /\ tif_files \in Stores(MaxTiles)
    /\ file_state \in [Range(tif_files) -> FileStates]
    /\ index_file = [directory |-> FALSE, exists |-> FALSE, entries |-> <<>>]
    /\ request = <<>>
    /\ Constructed
    /\ Detached
    /\ NoDownload

\* build_or_load_index, lines 52-70: an index found on disk is loaded and the
\* call returns; otherwise an empty index is created, on disk too, and the
\* walk begins.
BeginBuild ==
    /\ tif_directory /\ ~spatial_index.initialized /\ ~walk.active
    /\ IF index_file.exists
       THEN /\ spatial_index' = [initialized |-> TRUE, entries |-> index_file.entries]
            /\ last' = [NoCall EXCEPT !.op = "build_or_load_index", !.outcome = "ok"]
            /\ UNCHANGED <<index_file, walk>>
       ELSE /\ spatial_index' = [initialized |-> TRUE, entries |-> <<>>]
            /\ index_file' = [directory |-> TRUE, exists |-> TRUE, entries |-> <<>>]
            /\ walk' = [active |-> TRUE, files |-> tif_files]
            /\ last' = [NoCall EXCEPT !.op = "build_or_load_index",
                                      !.outcome = "walking"]
    /\ UNCHANGED <<tif_files, file_state, tif_directory, index_counter, cache,
                   request, route, download>>

\* _index_tif_files, lines 79-100: one file of the walk.
IndexNextFile ==
    /\ walk.active /\ walk.files # <<>>
    /\ LET filepath == Head(walk.files)
           step == IndexTifFiles(spatial_index.entries, index_counter, <<filepath>>)
       IN  /\ spatial_index' = [spatial_index EXCEPT !.entries = step.entries]
           /\ index_counter' = step.counter
           /\ walk' = [walk EXCEPT !.files = Tail(walk.files)]
           /\ last' = [last EXCEPT !.opened = Append(last.opened, filepath)]
    /\ UNCHANGED <<tif_files, file_state, tif_directory, index_file, cache,
                   request, route, download>>

\* The walk has visited every file: build_or_load_index returns, and the
\* index on disk holds what the walk inserted.
EndBuild ==
    /\ walk.active /\ walk.files = <<>>
    /\ walk' = NoWalk
    /\ index_file' = [index_file EXCEPT !.entries = spatial_index.entries]
    /\ last' = [last EXCEPT !.outcome = "ok"]
    /\ UNCHANGED <<tif_files, file_state, tif_directory, spatial_index,
                   index_counter, cache, request, route, download>>

\* The process is killed during the walk, and a new one constructs its
\* service; the disk stays as the walk left it.
Interrupt ==
    /\ walk.active
    /\ \E written \in 0..Len(spatial_index.entries) :
          index_file' = [index_file EXCEPT
                            !.entries = SubSeq(spatial_index.entries, 1, written)]
    /\ spatial_index' = NoIndex
    /\ index_counter' = 0
    /\ cache' = <<>>
    /\ last' = NoCall
    /\ walk' = NoWalk
    /\ UNCHANGED <<tif_files, file_state, tif_directory, request, route, download>>

NextBuild ==
    \/ BeginBuild
    \/ IndexNextFile
    \/ EndBuild
    \/ Interrupt
    \/ ~walk.active /\ Restart
    \/ ~walk.active /\ GetElevation

SpecBuild == InitBuild /\ [][NextBuild]_vars

(***************************************************************************)
(* Python's str.split, str.strip and float, on strings as sequences of     *)
(* characters.  Exponents and digit-group underscores are not in the       *)
(* alphabet of the inputs, and no input has more than two fraction digits. *)
(***************************************************************************)
Whitespace == {" "}

Digits == {"0", "1", "2", "3", "4", "5", "6", "7", "8", "9"}

DigitValue(c) ==
    CASE c = "0" -> 0 [] c = "1" -> 1 [] c = "2" -> 2 [] c = "3" -> 3
      [] c = "4" -> 4 [] c = "5" -> 5 [] c = "6" -> 6 [] c = "7" -> 7
      [] c = "8" -> 8 [] c = "9" -> 9

\* s.split(sep): the pieces between the separators, empty pieces included.
RECURSIVE Split(_, _)
Split(s, sep) ==
    IF \A i \in 1..Len(s) : s[i] # sep THEN <<s>>
    ELSE LET i == CHOOSE k \in 1..Len(s) :
                      s[k] = sep /\ \A j \in 1..(k - 1) : s[j] # sep
         IN  <<SubSeq(s, 1, i - 1)>> \o Split(SubSeq(s, i + 1, Len(s)), sep)

RECURSIVE LStrip(_)
LStrip(s) == IF s # <<>> /\ Head(s) \in Whitespace THEN LStrip(Tail(s)) ELSE s

RECURSIVE RStrip(_)
RStrip(s) ==
    IF s # <<>> /\ s[Len(s)] \in Whitespace
    THEN RStrip(SubSeq(s, 1, Len(s) - 1)) ELSE s

\* s.strip()
Strip(s) == RStrip(LStrip(s))

AllDigits(s) == \A i \in 1..Len(s) : s[i] \in Digits

RECURSIVE Decimal(_)
Decimal(s) ==
    IF s = <<>> THEN 0
    ELSE 10 * Decimal(SubSeq(s, 1, Len(s) - 1)) + DigitValue(s[Len(s)])

RECURSIVE Pow10(_)
Pow10(n) == IF n = 0 THEN 1 ELSE 10 * Pow10(n - 1)

NotAFloat == [ok |-> FALSE, kind |-> "error", v |-> 0]

\* An unsigned float literal: digits with an optional point, "nan", "inf" or
\* "infinity" (the literals with an exponent or with underscores are not
\* among the inputs and are not covered).  A finite value is kept in
\* hundredths.
Magnitude(s) ==
    LET parts == Split(s, ".")
        whole == parts[1]
        fraction == IF Len(parts) = 2 THEN parts[2] ELSE <<>>
    IN  IF s = <<"n", "a", "n">> THEN [ok |-> TRUE, kind |-> "nan", v |-> 0]
        ELSE IF s \in {<<"i", "n", "f">>, <<"i", "n", "f", "i", "n", "i", "t", "y">>}
        THEN [ok |-> TRUE, kind |-> "inf", v |-> 1]
        ELSE IF \/ Len(parts) > 2
                \/ ~AllDigits(whole) \/ ~AllDigits(fraction)
                \/ (whole = <<>> /\ fraction = <<>>)
        THEN NotAFloat
        ELSE [ok |-> TRUE, kind |-> "finite",
              v |-> Decimal(whole) * Scale
                    + (Decimal(fraction) * Scale) \div Pow10(Len(fraction))]

\* float(s): surrounding whitespace and one sign are allowed; anything else
\* raises ValueError (ok = FALSE).
Float(s) ==
    LET t == Strip(s)
    IN  IF t = <<>> THEN NotAFloat
        ELSE IF Head(t) \in {"+", "-"}
        THEN LET m == Magnitude(Tail(t))
             IN  IF Head(t) = "-" THEN [m EXCEPT !.v = 0 - m.v] ELSE m
        ELSE Magnitude(t)

\* A variant that takes the first two pieces and ignores further ones.
SplitLocationFirstTwo(location) ==
    LET parts == Split(location, <<",">>[1])
    IN  IF Len(parts) >= 2
        THEN [ok |-> TRUE, lat_str |-> parts[1], lon_str |-> parts[2]]
        ELSE [ok |-> FALSE, lat_str |-> <<>>, lon_str |-> <<>>]

\* lat_str, lon_str = location.split(","): unpacking anything but two pieces
\* raises ValueError (ok = FALSE).
SplitLocation(location) ==
    LET parts == Split(location, <<",">>[1])
    IN  IF Len(parts) = 2
        THEN [ok |-> TRUE, lat_str |-> parts[1], lon_str |-> parts[2]]
        ELSE [ok |-> FALSE, lat_str |-> <<>>, lon_str |-> <<>>]

\* A variant with the bounds themselves excluded.
InRangeExclusive(low, x, high) == x.kind = "finite" /\ low < x.v /\ x.v < high

\* low <= x <= high on floats: false for nan and for an infinity.
InRange(low, x, high) == x.kind = "finite" /\ low <= x.v /\ x.v <= high

(***************************************************************************)
(* ElevationService.process_location.                                      *)
(***************************************************************************)
\* raise InvalidCoordinateError(...): before any lookup.
Rejected(message) ==
    [outcome |-> "InvalidCoordinateError", error |-> InvalidCoordinateError(message),
     result |-> NoResult, lookups |-> 0, latitude |-> 0, longitude |-> 0,
     value |-> 0, cache |-> cache, index_queries |-> 0, opened |-> <<>>]

\* A variant that hands the coordinates to get_elevation in the other order.
LookUpSwapped(latitude, longitude) ==
    {[outcome |-> r.outcome, error |-> r.error,
      result |-> IF r.outcome = "ok"
                 THEN ElevationResult(latitude, longitude, r.value) ELSE NoResult,
      lookups |-> 1, latitude |-> longitude, longitude |-> latitude,
      value |-> r.value, cache |-> r.cache, index_queries |-> r.index_queries,
      opened |-> r.opened] : r \in get_elevation(longitude, latitude)}

\* Lines 183-188: the lookup, and the ElevationResult built from its value;
\* what get_elevation raises passes through.
LookUp(latitude, longitude) ==
    {[outcome |-> r.outcome, error |-> r.error,
      result |-> IF r.outcome = "ok"
                 THEN ElevationResult(latitude, longitude, r.value) ELSE NoResult,
      lookups |-> 1, latitude |-> latitude, longitude |-> longitude,
      value |-> r.value, cache |-> r.cache, index_queries |-> r.index_queries,
      opened |-> r.opened] : r \in get_elevation(latitude, longitude)}

\* Lines 165-181: the parse and the two range checks.  The message is "" for
\* a location that passes them.
Validated(location) ==
    LET pieces == SplitLocation(location)
        latitude == Float(Strip(pieces.lat_str))
        longitude == Float(Strip(pieces.lon_str))
        invalid(message) == [message |-> message, latitude |-> 0, longitude |-> 0]
    IN  IF ~pieces.ok \/ ~latitude.ok \/ ~longitude.ok
        THEN invalid("Invalid location format")
        ELSE IF ~InRange(-90 * Scale, latitude, 90 * Scale)
        THEN invalid("Invalid latitude")
        ELSE IF ~InRange(-180 * Scale, longitude, 180 * Scale)
        THEN invalid("Invalid longitude")
        ELSE [message |-> "", latitude |-> latitude.v, longitude |-> longitude.v]

\* A variant that validates after it has called get_elevation.
process_location_validating_late(location) ==
    LET v == Validated(location)
    IN  IF v.message # ""
        THEN {[Rejected(v.message) EXCEPT
                  !.lookups = 1,
                  !.index_queries = IF spatial_index.initialized THEN 1 ELSE 0]}
        ELSE LookUp(v.latitude, v.longitude)

\* The results process_location(location) can have in the current state.
process_location(location) ==
    LET v == Validated(location)
    IN  IF v.message # "" THEN {Rejected(v.message)}
        ELSE LookUp(v.latitude, v.longitude)

(***************************************************************************)
(* The raw locations of the requests: up to MaxParts components joined by  *)
(* commas.  Each component is listed with what it is: a decimal number     *)
(* (with its value in hundredths) or not a number.                         *)
(***************************************************************************)
Number(text, value) == [text |-> text, numeric |-> TRUE, value |-> value]

Malformed(text) == [text |-> text, numeric |-> FALSE, value |-> 0]

Components ==
    {Number(<<" ", "5", "0", ".", "5", " ">>, 5050),
     Number(<<"0", ".", "5", "5">>, 55),
     Number(<<" ", "0", ".", "0", "5">>, 5),
     Number(<<"9", "0">>, 9000),
     Number(<<"-", "9", "0">>, -9000),
     Number(<<"1", "8", "0">>, 18000),
     Number(<<"-", "1", "8", "0">>, -18000),
     Number(<<"9", "0", ".", "0", "1">>, 9001),
     Number(<<"1", "8", "0", ".", "0", "1">>, 18001),
     Number(<<"-", "1", "8", "0", ".", "0", "1">>, -18001),
     Malformed(<<>>),
     Malformed(<<"x">>),
     Malformed(<<"-">>),
     Malformed(<<"5", " ", "5">>),
     Malformed(<<"n", "a", "n">>)}

\* ",".join(parts)
RECURSIVE Join(_)
Join(parts) ==
    IF Len(parts) = 1 THEN parts[1]
    ELSE parts[1] \o <<",">> \o Join(Tail(parts))

Locations ==
    {Join(parts) : parts \in UNION {[1..k -> {c.text : c \in Components}] :
                                       k \in 1..MaxParts}}

\* The service of the tests' elevation_service fixture, before its index is
\* built, and a request; the fixture file is intact or truncated.
InitLocation ==
    /\ tif_directory = TRUE
    /\ tif_files = <<TestElevation.path>>
    /\ file_state \in [{TestElevation.path} -> {"ok", "truncated"}]
    /\ index_file = [directory |-> FALSE, exists |-> FALSE, entries |-> <<>>]
    /\ request \in Locations
    /\ Constructed
    /\ Detached
    /\ NoDownload

\* A call of process_location with the request.
ProcessLocation ==
    \E r \in process_location(request) :
        /\ cache' = r.cache
        /\ last' = [NoCall EXCEPT !.op = "process_location",
                                  !.location = request,
                                  !.lookups = r.lookups,
                                  !.latitude = r.latitude,
                                  !.longitude = r.longitude,
                                  !.outcome = r.outcome,
                                  !.value = r.value,
                                  !.error = r.error,
                                  !.result = r.result,
                                  !.index_queries = r.index_queries,
                                  !.opened = r.opened,
                                  !.evicted = CacheKeys(cache) \ CacheKeys(r.cache)]
        /\ UNCHANGED <<tif_files, file_state, tif_directory, index_file,
                       spatial_index, index_counter, request, route, walk, download>>

NextLocation == BuildOrLoadIndex \/ ProcessLocation

SpecLocation == InitLocation /\ [][NextLocation]_vars

(***************************************************************************)
(* The application: main.py's lifespan builds the index before the server  *)
(* accepts requests, and routes.py's lookup hands each location of a       *)
(* request to the executor, where the threads run process_location side by *)
(* side on the one service.                                                *)
(*                                                                         *)
(* A thread's run of process_location is cut where it touches the cache,   *)
(* the only state the threads share that changes: the membership test of   *)
(* line 118, the read of line 119 and the assignment of line 140, which    *)
(* LRUCache carries out as an eviction loop followed by the store.  The    *)
(* service holds no lock, and LRUCache is documented as not thread-safe.   *)
(* What a thread does on its own (the parse, the index query, the read of  *)
(* the tile file) is joined to its next step on the cache.                 *)
(***************************************************************************)
\* The raw locations of the lookup requests: three points of the fixture
\* tile, "999,999" and a point of no tile.
In005 == <<"5", "0", ".", "5", ",", "0", ".", "0", "5">>
In055 == <<"5", "0", ".", "5", ",", "0", ".", "5", "5">>
In095 == <<"5", "0", ".", "5", ",", "0", ".", "9", "5">>
OutOfRange == <<"9", "9", "9", ",", "9", "9", "9">>
Uncovered == <<"0", ",", "0">>

BatchLocations == {In005, In055, In095, OutOfRange, Uncovered}

\* The locations lists of the requests.
Batches == UNION {[1..n -> BatchLocations] : n \in 1..MaxBatch}

\* What an error that escapes get_elevation's cache read looks like:
\* LRUCache.__getitem__ on a key that is no longer there.
KeyError ==
    [kind |-> "KeyError", message |-> "cache_key",
     latitude |-> 0, longitude |-> 0]

\* loop.run_in_executor(service.executor, service.process_location, location):
\* a task of the executor, awaited by the request that submitted it.
QueuedTask(location) ==
    [location |-> location, pc |-> "queued", latitude |-> 0, longitude |-> 0,
     elevation |-> 0, outcome |-> "none", error |-> NoError, result |-> NoResult,
     awaited |-> TRUE]

\* The task has returned the result.
TaskReturned(t, elevation) ==
    [t EXCEPT !.pc = "done", !.outcome = "ok", !.elevation = elevation,
              !.result = ElevationResult(t.latitude, t.longitude, elevation)]

\* The task has raised the error.
TaskRaised(t, error) ==
    [t EXCEPT !.pc = "done", !.outcome = error.kind, !.error = error]

\* A variant whose workers take no further task after their first one.
RunningFirstTasksOnly(i) ==
    /\ i \in DOMAIN tasks
    /\ i <= max_workers

\* A variant with a thread for every task.
RunningUnbounded(i) ==
    i \in DOMAIN tasks

\* The executor runs its tasks in the order they were submitted, max_workers
\* at a time.
Running(i) ==
    /\ i \in DOMAIN tasks
    /\ Cardinality({j \in 1..(i - 1) : tasks[j].pc # "done"}) < max_workers

\* What no step of a thread changes.
service_at_rest ==
    <<tif_files, file_state, tif_directory, index_file, spatial_index,
      index_counter, request, last, app, response, walk, download>>

\* Lines 165-181 on each location of the requests: what the parse and the
\* range checks make of it.
ValidatedLocation == [location \in BatchLocations |-> Validated(location)]

\* A thread takes its task, parses and validates the location (lines 165-181)
\* and tests the cache for the key (lines 117-118, and 121-122 on a miss).
Check(i) ==
    /\ Running(i) /\ tasks[i].pc = "queued"
    /\ LET t == tasks[i]
           v == ValidatedLocation[t.location]
           located == [t EXCEPT !.latitude = v.latitude, !.longitude = v.longitude]
       IN  IF v.message # ""
           THEN /\ tasks' = [tasks EXCEPT ![i] =
                                TaskRaised(t, InvalidCoordinateError(v.message))]
                /\ finished' = Append(finished, i)
           ELSE IF CacheContains(cache, <<v.latitude, v.longitude>>)
           THEN /\ tasks' = [tasks EXCEPT ![i] = [located EXCEPT !.pc = "hit"]]
                /\ UNCHANGED finished
           ELSE IF ~spatial_index.initialized
           THEN /\ tasks' = [tasks EXCEPT ![i] = TaskRaised(located, IndexBuildError)]
                /\ finished' = Append(finished, i)
           ELSE /\ tasks' = [tasks EXCEPT ![i] = [located EXCEPT !.pc = "miss"]]
                /\ UNCHANGED finished
    /\ UNCHANGED <<cache, service_at_rest>>

\* Line 119, after the test of line 118 found the key: the read returns the
\* value and counts as a use, or raises KeyError when the key has been evicted
\* in between.
ReadCached(i) ==
    /\ Running(i) /\ tasks[i].pc = "hit"
    /\ LET t == tasks[i]
           cache_key == <<t.latitude, t.longitude>>
       IN  IF CacheContains(cache, cache_key)
           THEN LET got == CacheGetItem(cache, cache_key)
                IN  /\ cache' = got.cache
                    /\ tasks' = [tasks EXCEPT ![i] = TaskReturned(t, got.value)]
           ELSE /\ tasks' = [tasks EXCEPT ![i] = TaskRaised(t, KeyError)]
                /\ UNCHANGED cache
    /\ finished' = Append(finished, i)
    /\ UNCHANGED service_at_rest

\* Lines 124-139 and the first half of line 140: the index query and the read
\* of the first match, then, for a value read, LRUCache.__setitem__ up to its
\* eviction loop: a key that is not in the cache makes room for itself.
ReadTile(i) ==
    /\ Running(i) /\ tasks[i].pc = "miss"
    /\ LET t == tasks[i]
           cache_key == <<t.latitude, t.longitude>>
           matches == Intersection(spatial_index.entries,
                                   t.longitude, t.latitude, t.longitude, t.latitude)
       IN  \E r \in ReadMatches(<<>>, matches, cache_key, t.latitude, t.longitude) :
               IF r.outcome = "ok"
               THEN /\ tasks' = [tasks EXCEPT ![i] =
                                    [t EXCEPT !.pc = "store", !.elevation = r.value]]
                    /\ cache' = IF CacheContains(cache, cache_key) THEN cache
                                ELSE CacheEvict(cache)
                    /\ UNCHANGED finished
               ELSE /\ tasks' = [tasks EXCEPT ![i] = TaskRaised(t, r.error)]
                    /\ finished' = Append(finished, i)
                    /\ UNCHANGED cache
    /\ UNCHANGED service_at_rest

\* The second half of line 140, and lines 141 and 184-188: the entry is stored
\* as the most recently used one and the result is returned.
Store(i) ==
    /\ Running(i) /\ tasks[i].pc = "store"
    /\ LET t == tasks[i]
           cache_key == <<t.latitude, t.longitude>>
       IN  /\ cache' = Append(CacheWithout(cache, cache_key),
                              [key |-> cache_key, value |-> t.elevation])
           /\ tasks' = [tasks EXCEPT ![i] = TaskReturned(t, t.elevation)]
    /\ finished' = Append(finished, i)
    /\ UNCHANGED service_at_rest

\* A variant that answers 400 for a point without data and 404 for a bad
\* location.
StatusOfSwapped(kind) ==
    CASE kind = "InvalidCoordinateError" -> 404
      [] kind = "ElevationNotFoundError" -> 400
      [] kind = "ElevationReadError" -> 500

\* routes.py, lines 56-71: the status of each exception the route catches.
StatusOf(kind) ==
    CASE kind = "InvalidCoordinateError" -> 400
      [] kind = "ElevationNotFoundError" -> 404
      [] kind = "ElevationReadError" -> 500

Caught == {"InvalidCoordinateError", "ElevationNotFoundError", "ElevationReadError"}

\* raise HTTPException(status_code=..., detail=...): a response without results.
HTTPException(status_code, detail) ==
    [status |-> status_code, detail |-> detail, results |-> <<>>]

\* return LookupResponse(results=list(results))
LookupResponse(results) == [status |-> 200, detail |-> "", results |-> results]

\* What the route answers when the exception leaves asyncio.gather: its status
\* with str(exc) as detail for the three it catches; any other exception
\* leaves the route, and the server answers 500 without the message.
ExceptionResponse(error) ==
    IF error.kind \in Caught
    THEN HTTPException(StatusOf(error.kind), error.message)
    ELSE HTTPException(500, "Internal Server Error")

\* The tasks the request in progress awaits: the last ones submitted.
Awaited == {i \in DOMAIN tasks : tasks[i].awaited}

TaskFailed(i) == i \in Awaited /\ tasks[i].pc = "done" /\ tasks[i].outcome # "ok"

\* The first task to have raised: its exception is the one gather raises.
FirstFailure ==
    finished[CHOOSE k \in 1..Len(finished) :
                 /\ TaskFailed(finished[k])
                 /\ \A j \in 1..(k - 1) : ~TaskFailed(finished[j])]

\* A variant that lists the results in the order the tasks ended.
GatherResultsAsCompleted == [k \in 1..Len(tasks) |-> tasks[finished[k]].result]

\* asyncio.gather(*tasks): the results in the order of the tasks.
GatherResults ==
    [k \in 1..Cardinality(Awaited) |->
        tasks[Len(tasks) - Cardinality(Awaited) + k].result]

\* A variant that goes on to serve whatever the build did.
LifespanAfterIgnoringFailure(outcome) == "serving"

\* main.py, lines 29-32: an exception of build_or_load_index leaves the
\* lifespan before its yield, and the server does not start.
LifespanAfter(outcome) == IF outcome = "ok" THEN "serving" ELSE "failed"

\* The start of the application: settings and service are constructed, the
\* tile directory may be missing, and the fixture file is intact or truncated.
InitApp ==
    /\ tif_directory \in BOOLEAN
    /\ tif_files = IF tif_directory THEN <<TestElevation.path>> ELSE <<>>
    /\ file_state \in [Range(tif_files) -> {"ok", "truncated"}]
    /\ index_file = [directory |-> FALSE, exists |-> FALSE, entries |-> <<>>]
    /\ request = <<>>
    /\ Constructed
    /\ app = "starting"
    /\ tasks = <<>>
    /\ finished = <<>>
    /\ response = NoResponse
    /\ NoDownload

\* lifespan up to its yield.
Startup ==
    /\ app = "starting"
    /\ build_or_load_index
    /\ app' = LifespanAfter(last'.outcome)
    /\ UNCHANGED <<tasks, finished, response>>

\* lookup, lines 48-52: a request arrives at the serving application, once the
\* request before it is answered and its tasks have ended, and one task per
\* location is handed to the executor.
Lookup(locations) ==
    /\ app = "serving"
    /\ tasks = <<>> \/ response # NoResponse
    /\ \A i \in DOMAIN tasks : tasks[i].pc = "done"
    /\ tasks' = [i \in 1..Len(locations) |-> QueuedTask(locations[i])]
    /\ finished' = <<>>
    /\ response' = NoResponse
    /\ UNCHANGED <<tif_files, file_state, tif_directory, index_file,
                   spatial_index, index_counter, cache, request, last, app,
                   walk, download>>

\* A variant of the await that cancels the tasks still to end when one has
\* raised.
GatherCancelling ==
    /\ app = "serving" /\ tasks # <<>> /\ response = NoResponse
    /\ IF \E k \in 1..Len(finished) : TaskFailed(finished[k])
       THEN /\ response' = ExceptionResponse(tasks[FirstFailure].error)
            /\ tasks' = [i \in DOMAIN tasks |->
                            IF tasks[i].pc = "done" THEN tasks[i]
                            ELSE [tasks[i] EXCEPT !.pc = "done",
                                                  !.outcome = "CancelledError"]]
       ELSE /\ \A i \in Awaited : tasks[i].pc = "done"
            /\ response' = LookupResponse(GatherResults)
            /\ UNCHANGED tasks
    /\ UNCHANGED <<tif_files, file_state, tif_directory, index_file,
                   spatial_index, index_counter, cache, request, last, app,
                   finished, walk, download>>

\* lookup, lines 54-73: the await of gather ends when a task has raised, with
\* the exception of the first one that did, or when all tasks have returned.
Gather ==
    /\ app = "serving" /\ tasks # <<>> /\ response = NoResponse
    /\ IF \E k \in 1..Len(finished) : TaskFailed(finished[k])
       THEN response' = ExceptionResponse(tasks[FirstFailure].error)
       ELSE /\ \A i \in Awaited : tasks[i].pc = "done"
            /\ response' = LookupResponse(GatherResults)
    /\ UNCHANGED <<tif_files, file_state, tif_directory, index_file,
                   spatial_index, index_counter, cache, request, last, app,
                   tasks, finished, walk, download>>

NextApp ==
    \/ Startup
    \/ \E locations \in Batches : Lookup(locations)
    \/ \E i \in 1..MaxBatch : Check(i) \/ ReadCached(i) \/ ReadTile(i) \/ Store(i)
    \/ Gather

SpecApp == InitApp /\ [][NextApp]_vars

(***************************************************************************)
(* The executor with more tasks than threads.  A request may hold more     *)
(* locations than max_workers, and the route answers with the first        *)
(* exception while the other tasks of the request are still in the         *)
(* executor: routes.py cancels nothing, so they stay, and the tasks of the *)
(* next request queue up behind them.                                      *)
(***************************************************************************)
PoolLocations == {In005, In055, OutOfRange}

\* The locations lists: up to one location more than the executor has threads.
PoolBatches == UNION {[1..n -> PoolLocations] : n \in 1..(max_workers + 1)}

\* The most tasks the executor holds at a time.
PoolTasks == max_workers + 2

\* lookup, lines 48-52, for a request that arrives after the one before it
\* was answered with an exception and while tasks of it are still in the
\* executor: the new tasks are submitted behind them, and nothing awaits the
\* old ones any more.
LookupBehind(locations) ==
    /\ app = "serving"
    /\ response # NoResponse
    /\ \E i \in DOMAIN tasks : tasks[i].pc # "done"
    /\ Len(tasks) + Len(locations) <= PoolTasks
    /\ tasks' = [i \in DOMAIN tasks |-> [tasks[i] EXCEPT !.awaited = FALSE]]
                 \o [i \in 1..Len(locations) |-> QueuedTask(locations[i])]
    /\ response' = NoResponse
    /\ UNCHANGED <<tif_files, file_state, tif_directory, index_file,
                   spatial_index, index_counter, cache, request, last, app,
                   finished, walk, download>>

\* A step of the thread that runs task i.
Thread(i) == Check(i) \/ ReadCached(i) \/ ReadTile(i) \/ Store(i)

NextPool ==
    \/ Startup
    \/ \E locations \in PoolBatches : Lookup(locations)
    \/ \E locations \in PoolBatches : LookupBehind(locations)
    \/ \E i \in 1..PoolTasks : Thread(i)
    \/ Gather

SpecPool == InitApp /\ [][NextPool]_vars

\* The threads of the executor are scheduled by the operating system and the
\* event loop resumes the await of gather: while some thread can take a step
\* one is taken, and an await that can end does.  No request has to arrive.
SpecPoolFair ==
    /\ SpecPool
    /\ WF_vars(\E i \in 1..PoolTasks : Thread(i))
    /\ WF_vars(Gather)

(***************************************************************************)
(* The end of the lifespan: main.py calls service.shutdown() after its     *)
(* yield, when the server has stopped serving and every request it took    *)
(* has been answered.  Tasks of a request that was answered with an        *)
(* exception can still be in the executor then.                            *)
(***************************************************************************)
\* A variant that cancels the tasks no thread has taken yet.
ShutdownCancelling ==
    /\ app = "serving"
    /\ tasks = <<>> \/ response # NoResponse
    /\ app' = "stopped"
    /\ tasks' = [i \in DOMAIN tasks |->
                    IF tasks[i].pc = "queued"
                    THEN [tasks[i] EXCEPT !.pc = "done", !.outcome = "CancelledError"]
                    ELSE tasks[i]]
    /\ UNCHANGED <<tif_files, file_state, tif_directory, index_file,
                   spatial_index, index_counter, cache, request, last,
                   finished, response, walk, download>>

\* main.py line 33 and service.py lines 190-192:
\* self._executor.shutdown(wait=False) marks the executor as shut down and
\* returns; the tasks it holds are left to its threads.
Shutdown ==
    /\ app = "serving"
    /\ tasks = <<>> \/ response # NoResponse
    /\ app' = "stopped"
    /\ UNCHANGED <<tif_files, file_state, tif_directory, index_file,
                   spatial_index, index_counter, cache, request, last,
                   tasks, finished, response, walk, download>>

\* loop.run_in_executor with the executor after its shutdown: submit raises
\* RuntimeError, no task is queued, and the exception leaves the caller.
LookupAfterShutdown(locations) ==
    /\ app = "stopped"
    /\ response' = HTTPException(500, "Internal Server Error")
    /\ UNCHANGED <<tif_files, file_state, tif_directory, index_file,
                   spatial_index, index_counter, cache, request, last, app,
                   tasks, finished, walk, download>>

\* The locations lists of the requests around a shutdown.
LifespanBatches == UNION {[1..n -> PoolLocations] : n \in 1..MaxBatch}

NextLifespan ==
    \/ Startup
    \/ \E locations \in LifespanBatches : Lookup(locations)
    \/ \E i \in 1..MaxBatch : Thread(i)
    \/ Gather
    \/ Shutdown
    \/ \E locations \in LifespanBatches : LookupAfterShutdown(locations)

SpecLifespan == InitApp /\ [][NextLifespan]_vars

\* The threads of the executor go on being scheduled after shutdown, and
\* the event loop resumes the await of gather.
SpecLifespanFair ==
    /\ SpecLifespan
    /\ WF_vars(\E i \in 1..MaxBatch : Thread(i))
    /\ WF_vars(Gather)

(***************************************************************************)
(* Calls of get_elevation and of process_location, one after the other, on *)
(* a service over any tile store, in any state of its index and its cache. *)
(***************************************************************************)
\* "0.01,0.03", a point of a.tif; a location without a comma.
OnTileA == <<"0", ".", "0", "1", ",", "0", ".", "0", "3">>
NoComma == <<"0", ".", "0", "1">>

CallLocations == {OnTileA, OutOfRange, NoComma}

\* What a call of process_location(location) with the result r leaves in last.
CallRecord(location, r) ==
    [NoCall EXCEPT !.op = "process_location",
                   !.location = location,
                   !.lookups = r.lookups,
                   !.latitude = r.latitude,
                   !.longitude = r.longitude,
                   !.outcome = r.outcome,
                   !.value = r.value,
                   !.error = r.error,
                   !.result = r.result,
                   !.index_queries = r.index_queries,
                   !.opened = r.opened,
                   !.evicted = CacheKeys(cache) \ CacheKeys(r.cache)]

\* A variant that drops the index when the lookup fails on the tile files.
ProcessAnyLocationDroppingIndex ==
    \E location \in CallLocations :
        \E r \in process_location(location) :
            /\ cache' = r.cache
            /\ last' = CallRecord(location, r)
            /\ spatial_index' = IF r.outcome = "ElevationReadError"
                                THEN NoIndex ELSE spatial_index
            /\ UNCHANGED <<tif_files, file_state, tif_directory, index_file,
                           index_counter, request, route, walk, download>>

\* A call of process_location with one of the locations.
ProcessAnyLocation ==
    \E location \in CallLocations :
        \E r \in process_location(location) :
            /\ cache' = r.cache
            /\ last' = CallRecord(location, r)
            /\ UNCHANGED <<tif_files, file_state, tif_directory, index_file,
                           spatial_index, index_counter, request, route, walk, download>>

NextCalls == BuildOrLoadIndex \/ GetElevation \/ Restart \/ ProcessAnyLocation

SpecCalls == Init /\ [][NextCalls]_vars

(***************************************************************************)
(* The download scripts, download/alos.py and download/aster.py: programs  *)
(* of their own.  Paths are strings, with "/" as os.sep; the disk holds no *)
(* symbolic link, so os.path.realpath is the normalisation of the absolute *)
(* path.                                                                   *)
(***************************************************************************)
\* The state of the service's variables while a download script runs.
ServiceAbsent ==
    /\ tif_directory = FALSE
    /\ tif_files = <<>>
    /\ file_state = <<>>
    /\ index_file = [directory |-> FALSE, exists |-> FALSE, entries |-> <<>>]
    /\ request = <<>>
    /\ Constructed
    /\ Detached

\* The working directory of the script.
Cwd == <<"/">>

\* sep.join(parts)
RECURSIVE JoinWith(_, _)
JoinWith(parts, sep) ==
    IF parts = <<>> THEN <<>>
    ELSE IF Len(parts) = 1 THEN parts[1]
    ELSE parts[1] \o <<sep>> \o JoinWith(Tail(parts), sep)

\* s.startswith(prefix)
StartsWith(s, prefix) ==
    Len(prefix) <= Len(s) /\ SubSeq(s, 1, Len(prefix)) = prefix

\* os.path.join(a, b): an absolute b replaces a.
PathJoin(a, b) ==
    IF b # <<>> /\ b[1] = "/" THEN b
    ELSE IF a = <<>> \/ a[Len(a)] = "/" THEN a \o b
    ELSE a \o <<"/">> \o b

\* The components of an absolute path with "", "." and ".." resolved; ".."
\* at the root stays at the root.
RECURSIVE Resolved(_, _)
Resolved(stack, rest) ==
    IF rest = <<>> THEN stack
    ELSE LET c == Head(rest)
         IN  IF c = <<>> \/ c = <<".">> THEN Resolved(stack, Tail(rest))
             ELSE IF c = <<".", ".">>
             THEN Resolved(IF stack = <<>> THEN stack
                           ELSE SubSeq(stack, 1, Len(stack) - 1), Tail(rest))
             ELSE Resolved(Append(stack, c), Tail(rest))

\* os.path.realpath(path)
RealPath(path) ==
    <<"/">> \o JoinWith(Resolved(<<>>, Split(PathJoin(Cwd, path), "/")), "/")

\* The condition of line 69 (alos.py) and line 40 (aster.py).
Traverses(dest, member_path) ==
    ~StartsWith(member_path, dest \o <<"/">>) /\ member_path # dest

\* zip_file.extractall(destination): the files written.  ZipFile drops the
\* empty, "." and ".." components of a member's name and writes it under
\* the destination; a member whose name ends in "/" is a directory.
ExtractAll(destination, namelist) ==
    {RealPath(PathJoin(destination,
                       JoinWith(SelectSeq(Split(namelist[k], "/"),
                                          LAMBDA c : c \notin {<<>>, <<".">>,
                                                               <<".", ".">>}),
                                "/")))
        : k \in {j \in 1..Len(namelist) : namelist[j][Len(namelist[j])] # "/"}}

\* A variant that checks and extracts one member after the other.
RECURSIVE safe_extract_memberwise(_)
safe_extract_memberwise(archive) ==
    LET dest == RealPath(archive.destination)
    IN  IF archive.namelist = <<>>
        THEN [outcome |-> "ok", member |-> <<>>, written |-> {}]
        ELSE LET member == Head(archive.namelist)
             IN  IF Traverses(dest, RealPath(PathJoin(dest, member)))
                 THEN [outcome |-> "ValueError", member |-> member, written |-> {}]
                 ELSE LET rest == safe_extract_memberwise(
                                      [archive EXCEPT !.namelist = Tail(@)])
                      IN  [rest EXCEPT !.written =
                              @ \cup ExtractAll(archive.destination, <<member>>)]

\* _safe_extract(zip_file, destination): ValueError for the first member of
\* the namelist that resolves outside the destination; extractall only after
\* the loop over all members.
safe_extract(archive) ==
    LET dest == RealPath(archive.destination)
        bad == {k \in 1..Len(archive.namelist) :
                   Traverses(dest, RealPath(PathJoin(dest, archive.namelist[k])))}
    IN  IF bad # {}
        THEN [outcome |-> "ValueError",
              member |-> archive.namelist[CHOOSE k \in bad : \A j \in bad : k <= j],
              written |-> {}]
        ELSE [outcome |-> "ok", member |-> <<>>,
              written |-> ExtractAll(archive.destination, archive.namelist)]

\* The names of archive members: files and a directory inside the
\* destination, and names that leave it through "..", through an absolute
\* path, and into a sibling directory whose name begins like the
\* destination's.
Members ==
    {<<"a">>,
     <<"s", "/", "a">>,
     <<"s", "/", ".", ".", "/", "b">>,
     <<".", "/">>,
     <<".", ".", "/", "x">>,
     <<"s", "/", ".", ".", "/", ".", ".", "/", "x">>,
     <<"/", "x">>,
     <<".", ".", "/", "d", "d", "/", "a">>}

Destinations == {<<"/", "d">>, <<"d", "/">>}

Archives ==
    {[destination |-> d, namelist |-> n] :
        d \in Destinations,
        n \in UNION {[1..k -> Members] : k \in 0..MaxMembers}}

InitExtract ==
    /\ ServiceAbsent
    /\ zip_file \in Archives
    /\ extraction = NoExtraction
    /\ grid = NoGrid

\* A call of _safe_extract with the archive.
SafeExtract ==
    /\ extraction = NoExtraction
    /\ extraction' = safe_extract(zip_file)
    /\ UNCHANGED <<tif_files, file_state, tif_directory, index_file,
                   spatial_index, index_counter, cache, request, last, route,
                   walk, zip_file, grid>>

NextExtract == SafeExtract

SpecExtract == InitExtract /\ [][NextExtract]_vars

(***************************************************************************)
(* generate_all_tiles of download/alos.py: the names of the tile archives  *)
(* of the global grid.  A name is a string of 17 characters.               *)
(***************************************************************************)
\* TILE_STEP, the default of the step argument, with which main calls.
TILE_STEP == 5

Abs(n) == IF n < 0 THEN 0 - n ELSE n

DigitChar(d) == CHOOSE c \in Digits : DigitValue(c) = d

\* f"{n:03d}" for 0 <= n < 1000
Format03d(n) ==
    <<DigitChar(n \div (10 * 10)), DigitChar((n \div 10) % 10), DigitChar(n % 10)>>

\* Lines 37-51: the name of the cell whose south-west corner is (lat, lon).
TileName(lat, lon, step) ==
    LET start_lat == IF lat >= 0 THEN <<"N">> \o Format03d(Abs(lat))
                     ELSE <<"S">> \o Format03d(Abs(lat))
        start_lon == IF lon < 0 THEN <<"W">> \o Format03d(Abs(lon))
                     ELSE <<"E">> \o Format03d(Abs(lon))
        end_lat_val == lat + step
        end_lat == IF end_lat_val <= 90 /\ end_lat_val > 0
                   THEN <<"N">> \o Format03d(Abs(end_lat_val))
                   ELSE <<"S">> \o Format03d(Abs(end_lat_val))
        end_lon_val == lon + step
        end_lon == IF end_lon_val <= 0 THEN <<"W">> \o Format03d(Abs(end_lon_val))
                   ELSE <<"E">> \o Format03d(Abs(end_lon_val))
    IN  start_lat \o start_lon \o <<"_">> \o end_lat \o end_lon

\* The call generate_all_tiles(), at the first iteration of its loops.
InitTiles ==
    /\ ServiceAbsent
    /\ zip_file = NoArchive
    /\ extraction = NoExtraction
    /\ grid = [lat |-> 85, lon |-> 0 - 180, tile_names |-> <<>>, returned |-> FALSE]

\* One iteration of the inner loop, lines 36-51, and the step of the loops:
\* range(-180, 180, step) inside range(85, -90, -step).
AppendTile ==
    /\ ~grid.returned /\ grid.lat > 0 - 90
    /\ grid' = [grid EXCEPT
                   !.tile_names = Append(@, TileName(grid.lat, grid.lon, TILE_STEP)),
                   !.lon = IF grid.lon + TILE_STEP < 180 THEN grid.lon + TILE_STEP
                           ELSE 0 - 180,
                   !.lat = IF grid.lon + TILE_STEP < 180 THEN grid.lat
                           ELSE grid.lat - TILE_STEP]
    /\ UNCHANGED <<tif_files, file_state, tif_directory, index_file,
                   spatial_index, index_counter, cache, request, last, route,
                   walk, zip_file, extraction>>

\* Line 53, after the last iteration.
ReturnTiles ==
    /\ ~grid.returned /\ grid.lat <= 0 - 90
    /\ grid' = [grid EXCEPT !.returned = TRUE]
    /\ UNCHANGED <<tif_files, file_state, tif_directory, index_file,
                   spatial_index, index_counter, cache, request, last, route,
                   walk, zip_file, extraction>>

NextTiles == AppendTile \/ ReturnTiles

SpecTiles == InitTiles /\ [][NextTiles]_vars

(***************************************************************************)
(* Properties of get_elevation, checked under Spec.                        *)
(***************************************************************************)
LastKey == <<last.latitude, last.longitude>>

LookedUp == last.op = "get_elevation"

\* The rectangle of an index entry contains the point, its four edges included.
RectContains(e, latitude, longitude) ==
    /\ e.left <= longitude /\ longitude <= e.right
    /\ e.bottom <= latitude /\ latitude <= e.top

\* The indexed file is readable and one pixel of its grid contains the point.
YieldsSample(e, latitude, longitude) ==
    /\ file_state[e.obj] = "ok"
    /\ InGrid(TileAt(e.obj), DatasetIndex(TileAt(e.obj), longitude, latitude))

\* The stored sample of the pixel of the entry's tile that contains the point:
\* column floor((lon - left) / px), row floor((top - lat) / py).
PixelSample(e, latitude, longitude) ==
    LET t == TileAt(e.obj)
    IN  StoredSample(t, (t.top - latitude) \div t.py, (longitude - t.left) \div t.px)

Entries == {spatial_index.entries[i] : i \in 1..Len(spatial_index.entries)}

\* C1: for every point inside the footprint (the pixel grid) of an indexed,
\* readable tile, get_elevation returns the stored sample of a pixel that
\* contains the point, not an error and not a value between samples.
C1_ExactPixelSample ==
    (LookedUp /\ spatial_index.initialized
        /\ \E e \in Entries : YieldsSample(e, last.latitude, last.longitude))
    => /\ last.outcome = "ok"
       /\ \E e \in Entries :
             /\ YieldsSample(e, last.latitude, last.longitude)
             /\ last.value = PixelSample(e, last.latitude, last.longitude)

\* C2: when the index is queried for a point that no indexed rectangle
\* contains, get_elevation raises ElevationNotFoundError carrying exactly the
\* latitude and longitude of the call, and nothing else.
C2_NotFoundOutsideEveryTile ==
    (LookedUp /\ spatial_index.initialized
        /\ \A e \in Entries : ~RectContains(e, last.latitude, last.longitude))
    => /\ last.outcome = "ElevationNotFoundError"
       /\ last.error.kind = "ElevationNotFoundError"
       /\ last.error.latitude = last.latitude
       /\ last.error.longitude = last.longitude

\* A lookup outside every tile of a non-empty index has been made.
C2_Witness ==
    /\ LookedUp /\ spatial_index.initialized /\ Entries # {}
    /\ \A e \in Entries : ~RectContains(e, last.latitude, last.longitude)
    /\ last.outcome = "ElevationNotFoundError"

\* C6: a get_elevation call that directly follows a successful call with the
\* same latitude and longitude returns the same value and is served from the
\* cache: it makes no index query and opens no tile file.
C6_RepeatedLookupServedFromCache ==
    [][(/\ LookedUp /\ last.outcome = "ok"
        /\ last'.op = "get_elevation"
        /\ last'.latitude = last.latitude /\ last'.longitude = last.longitude)
       => (/\ last'.outcome = "ok" /\ last'.value = last.value
           /\ last'.index_queries = 0 /\ last'.opened = <<>>)]_vars

\* A lookup has been served from the cache.
C6_Witness ==
    /\ LookedUp /\ last.outcome = "ok"
    /\ last.index_queries = 0 /\ last.opened = <<>>
    /\ CacheContains(cache, LastKey)

\* C7: the cache never holds more than cache_max_size entries, and a
\* successful lookup of a new key that finds the cache full evicts exactly the
\* least recently used entry: the cache becomes its other entries, in their
\* order, followed by the new key with the value returned.
C7_CacheBoundedLruEvicted ==
    /\ [](Len(cache) <= cache_max_size)
    /\ [][(/\ last'.op = "get_elevation" /\ last'.outcome = "ok"
           /\ ~CacheContains(cache, <<last'.latitude, last'.longitude>>)
           /\ Len(cache) = cache_max_size)
          => (/\ cache' = Append(Tail(cache),
                                 [key |-> <<last'.latitude, last'.longitude>>,
                                  value |-> last'.value])
              /\ last'.evicted = {Head(cache).key})]_vars

\* A lookup of a new key has evicted an entry of the full cache.
C7_Witness ==
    /\ LookedUp /\ last.outcome = "ok" /\ last.index_queries = 1
    /\ last.evicted # {}
    /\ Len(cache) = cache_max_size

IsSuffix(s, t) ==
    Len(s) <= Len(t) /\ s = SubSeq(t, Len(t) - Len(s) + 1, Len(t))

\* C8: after a cache hit on key k, k is the most recently used entry; and no
\* call changes the order of the entries it does not touch or evicts an entry
\* while a less recently used one stays, so k leaves the cache only after every
\* entry that was in it at the hit and has not been used since.
C8_HitCountsAsUse ==
    /\ []((LookedUp /\ last.outcome = "ok" /\ last.index_queries = 0)
            => (cache # <<>> /\ cache[Len(cache)].key = LastKey))
    /\ [][last'.op = "get_elevation"
          => IsSuffix(CacheWithout(cache', <<last'.latitude, last'.longitude>>),
                      CacheWithout(cache, <<last'.latitude, last'.longitude>>))]_vars

\* A hit on a key of a cache that holds other entries too.
C8_Witness ==
    /\ LookedUp /\ last.outcome = "ok" /\ last.index_queries = 0
    /\ Len(cache) >= 2
    /\ cache[Len(cache)].key = LastKey

\* C9: a get_elevation call that ends in ElevationNotFoundError or
\* ElevationReadError leaves the cache, its entries and their order, unchanged;
\* its key is not cached, and the call has queried the index.
C9_FailuresAreNotCached ==
    /\ []((LookedUp /\ last.outcome \in {"ElevationNotFoundError", "ElevationReadError"})
            => (last.index_queries = 1 /\ ~CacheContains(cache, LastKey)))
    /\ [][(last'.op = "get_elevation"
           /\ last'.outcome \in {"ElevationNotFoundError", "ElevationReadError"})
          => cache' = cache]_vars

\* A failed lookup on a service whose cache holds entries.
C9_Witness ==
    /\ LookedUp /\ last.outcome = "ElevationNotFoundError"
    /\ last.index_queries = 1
    /\ cache # <<>>

\* The candidates of the last lookup, in index order.
Candidates ==
    SelectSeq(spatial_index.entries,
              LAMBDA e : RectContains(e, last.latitude, last.longitude))

\* Reading the point from the candidate fails with an I/O error: its file
\* cannot be opened, or the read of the pixel that contains the point fails.
FailsWithIOError(e, latitude, longitude) ==
    \/ file_state[e.obj] = "unopenable"
    \/ /\ file_state[e.obj] = "truncated"
       /\ InGrid(TileAt(e.obj), DatasetIndex(TileAt(e.obj), longitude, latitude))

\* C10: when candidates fail with an I/O error and a later candidate yields a
\* sample, the lookup goes on past the failures, opens that candidate and
\* returns the sample of the first candidate that yields one.
C10_NextCandidateAfterReadFailure ==
    (LookedUp /\ spatial_index.initialized /\ last.index_queries = 1)
    => \A j \in 1..Len(Candidates) :
          (/\ \A i \in 1..(j - 1) :
                 FailsWithIOError(Candidates[i], last.latitude, last.longitude)
           /\ YieldsSample(Candidates[j], last.latitude, last.longitude))
          => (/\ last.outcome = "ok"
              /\ last.value = PixelSample(Candidates[j], last.latitude,
                                          last.longitude)
              /\ Candidates[j].obj \in Range(last.opened))

\* The candidate's file opens, and the pixel computed for the point is outside
\* its grid: the point is on the bottom or the right edge of the rectangle.
IsOffGrid(e, latitude, longitude) ==
    /\ file_state[e.obj] # "unopenable"
    /\ ~InGrid(TileAt(e.obj), DatasetIndex(TileAt(e.obj), longitude, latitude))

\* C11: a lookup that queries the index raises ElevationReadError exactly when
\* it has at least one candidate and every candidate fails with an I/O error;
\* so never while some candidate yields a sample.  (Stated for the points that
\* are on the grid of each of their candidates.)
C11_ReadErrorIffEveryCandidateFails ==
    (/\ LookedUp /\ spatial_index.initialized /\ last.index_queries = 1
     /\ \A i \in 1..Len(Candidates) :
           ~IsOffGrid(Candidates[i], last.latitude, last.longitude))
    => (last.outcome = "ElevationReadError"
            <=> (/\ Candidates # <<>>
                 /\ \A i \in 1..Len(Candidates) :
                       FailsWithIOError(Candidates[i], last.latitude,
                                        last.longitude)))

\* The candidate's file is readable and the pixel that contains the point
\* stores the no-data value the file declares.
IsNoData(e, latitude, longitude) ==
    /\ YieldsSample(e, latitude, longitude)
    /\ PixelSample(e, latitude, longitude) = TileAt(e.obj).nodata

\* C12: a candidate whose sample is its no-data value is a miss: the lookup
\* returns the sample of the first later candidate that yields a real one,
\* raises ElevationNotFoundError when every candidate is such a miss, and the
\* cache never holds a no-data value.
C12_NoDataSampleIsAMiss ==
    /\ (LookedUp /\ spatial_index.initialized /\ last.index_queries = 1
            /\ Candidates # <<>>)
       => /\ (\A i \in 1..Len(Candidates) :
                 IsNoData(Candidates[i], last.latitude, last.longitude))
             => last.outcome = "ElevationNotFoundError"
          /\ \A j \in 1..Len(Candidates) :
                (/\ \A i \in 1..(j - 1) :
                       IsNoData(Candidates[i], last.latitude, last.longitude)
                 /\ YieldsSample(Candidates[j], last.latitude, last.longitude)
                 /\ ~IsNoData(Candidates[j], last.latitude, last.longitude))
                => (/\ last.outcome = "ok"
                    /\ last.value = PixelSample(Candidates[j], last.latitude,
                                                last.longitude))
    /\ \A k \in 1..Len(cache) : cache[k].value # Sentinel

\* C13: a candidate whose computed pixel is outside its grid is a miss: the
\* lookup returns the sample of the first later candidate that yields one, and
\* raises ElevationNotFoundError, no other error, when every candidate is such
\* a miss.
C13_OffGridPixelIsAMiss ==
    (LookedUp /\ spatial_index.initialized /\ last.index_queries = 1
        /\ Candidates # <<>>)
    => /\ (\A i \in 1..Len(Candidates) :
              IsOffGrid(Candidates[i], last.latitude, last.longitude))
          => last.outcome = "ElevationNotFoundError"
       /\ \A j \in 1..Len(Candidates) :
             (/\ \A i \in 1..(j - 1) :
                    IsOffGrid(Candidates[i], last.latitude, last.longitude)
              /\ YieldsSample(Candidates[j], last.latitude, last.longitude))
             => (/\ last.outcome = "ok"
                 /\ last.value = PixelSample(Candidates[j], last.latitude,
                                             last.longitude))

(***************************************************************************)
(* Properties of build_or_load_index, checked under Spec.                  *)
(***************************************************************************)
Built == last.op = "build_or_load_index"

\* The positions of a path among the objects of the index.
IndexedAt(path) ==
    {i \in 1..Len(spatial_index.entries) : spatial_index.entries[i].obj = path}

\* C18: the build goes past a file that cannot be opened: the index it leaves
\* holds every other .tif file of the store exactly once, under an id of its
\* own, and holds no file that cannot be opened.
C18_UnreadableFilesSkipped ==
    spatial_index.initialized
    => /\ \A path \in Range(tif_files) :
             Cardinality(IndexedAt(path)) =
                 IF file_state[path] = "unopenable" THEN 0 ELSE 1
       /\ \A i, j \in 1..Len(spatial_index.entries) :
             i # j => spatial_index.entries[i].id # spatial_index.entries[j].id
       /\ Built => last.outcome = "ok"

\* A build has gone past a first file that cannot be opened and indexed the
\* second one.
C18_Witness ==
    /\ Built /\ last.outcome = "ok" /\ spatial_index.initialized
    /\ Len(tif_files) = 2
    /\ file_state[tif_files[1]] = "unopenable"
    /\ file_state[tif_files[2]] # "unopenable"
    /\ Len(spatial_index.entries) = 1
    /\ spatial_index.entries[1].obj = tif_files[2]

\* C19: build_or_load_index raises IndexBuildError exactly when the tile
\* directory does not exist, and the failing call leaves the index
\* uninitialised, the counter and the disk as they were.
C19_IndexBuildErrorOnlyForMissingDirectory ==
    /\ [](Built => (last.outcome = "IndexBuildError" <=> ~tif_directory))
    /\ []((Built /\ last.outcome = "IndexBuildError")
            => (spatial_index = NoIndex /\ last.error.kind = "IndexBuildError"))
    /\ [][(last'.op = "build_or_load_index" /\ last'.outcome = "IndexBuildError")
          => UNCHANGED <<index_file, spatial_index, index_counter, tif_files>>]_vars

\* The build has failed on a missing tile directory, and no index directory
\* or index file exists.
C19_Witness ==
    /\ Built /\ last.outcome = "IndexBuildError" /\ ~tif_directory
    /\ ~index_file.directory /\ ~index_file.exists
    /\ ~spatial_index.initialized

(***************************************************************************)
(* Properties of the index across processes, checked under SpecBuild.      *)
(***************************************************************************)
\* The paths an index returns for a point.
TilesAt(entries, latitude, longitude) ==
    LET matches == Intersection(entries, longitude, latitude, longitude, latitude)
    IN  {matches[i].obj : i \in 1..Len(matches)}

\* C21: a lookup that queries the index queries a complete one: every tile
\* file of the store that can be opened has been inserted into it.
C21_NoLookupOnPartialIndex ==
    (LookedUp /\ last.index_queries = 1)
    => \A path \in Range(tif_files) :
          file_state[path] # "unopenable" => IndexedAt(path) # {}

\* C22: whatever the earlier starts were, the index a returned
\* build_or_load_index leaves, loaded or built, answers every point query
\* with the tiles an index built from the tile store answers with.
C22_LoadedIndexEquivalentToBuilt ==
    (Built /\ last.outcome = "ok")
    => \A latitude \in Lats, longitude \in Lons :
          TilesAt(spatial_index.entries, latitude, longitude)
              = TilesAt(IndexTifFiles(<<>>, 0, tif_files).entries, latitude, longitude)

(***************************************************************************)
(* Discoverability of the inserted tiles, checked under Spec.              *)
(***************************************************************************)
\* The points around and on the tiles of the catalogue.
PointLats == (0 - 1)..5
PointLons == (0 - 1)..9

\* The point is inside the bounds of the tile file, the four edges included.
OnTile(path, latitude, longitude) ==
    LET b == DatasetBounds(TileAt(path))
    IN  /\ b.left <= longitude /\ longitude <= b.right
        /\ b.bottom <= latitude /\ latitude <= b.top

\* C23: in every state of a process whose index is built or loaded, after
\* any number of lookups, the index query of get_elevation at a point
\* returns every inserted tile whose bounds, edges included, contain it.
C23_InsertedTilesStayDiscoverable ==
    spatial_index.initialized
    => \A path \in Range(tif_files) :
          file_state[path] # "unopenable"
          => \A latitude \in PointLats, longitude \in PointLons :
                OnTile(path, latitude, longitude)
                => path \in TilesAt(spatial_index.entries, latitude, longitude)

\* After an earlier lookup, a lookup at (0.01, 0.04), on the left edge of
\* b.tif, has found the tile and read the point from it.
C23_Witness ==
    /\ LookedUp /\ last.index_queries = 1 /\ last.outcome = "ok"
    /\ last.latitude = 1 /\ last.longitude = 4
    /\ OnTile("b.tif", last.latitude, last.longitude)
    /\ last.opened = <<"b.tif">>
    /\ Len(cache) = 2

(***************************************************************************)
(* Frame properties of the lookups, checked under SpecCalls.               *)
(***************************************************************************)
\* C24: once the index is built or loaded, a step that is a call of
\* get_elevation or of process_location, whatever its outcome, leaves the
\* entries of the index and the id counter as they were.
C24_LookupsLeaveIndexUnchanged ==
    [][(spatial_index.initialized
            /\ last'.op \in {"get_elevation", "process_location"})
       => (spatial_index' = spatial_index /\ index_counter' = index_counter)]_vars

\* Calls of both operations have been made on a built index: the last one,
\* of process_location, failed on the tile files, after one had succeeded.
C24_Witness ==
    /\ spatial_index.initialized /\ spatial_index.entries # <<>>
    /\ last.op = "process_location"
    /\ last.outcome = "ElevationReadError"
    /\ cache # <<>>

\* C25: a call of process_location that raises InvalidCoordinateError has
\* made no call of get_elevation: the cache, the order of its entries
\* included, is as it was, no index query was made and no tile file opened.
C25_RejectionBeforeAnyLookupWork ==
    [][(last'.op = "process_location"
            /\ last'.outcome = "InvalidCoordinateError")
       => (/\ cache' = cache
           /\ last'.lookups = 0
           /\ last'.index_queries = 0
           /\ last'.opened = <<>>
           /\ last'.evicted = {})]_vars

\* A location has been rejected on a service with a built index and a full
\* cache.
C25_Witness ==
    /\ last.op = "process_location"
    /\ last.outcome = "InvalidCoordinateError"
    /\ last.error.message = "Invalid latitude"
    /\ spatial_index.initialized
    /\ Len(cache) = cache_max_size

(***************************************************************************)
(* Properties of process_location, checked under SpecLocation.             *)
(***************************************************************************)
Processed == last.op = "process_location"

\* The location is the two numeric components a and b with one comma between.
WellFormedAs(location, a, b) ==
    /\ a.numeric /\ b.numeric
    /\ location = a.text \o <<",">> \o b.text

WellFormed(location) == \E a, b \in Components : WellFormedAs(location, a, b)

LatitudeOutOfRange(a) == a.value < -90 * Scale \/ a.value > 90 * Scale

LongitudeOutOfRange(b) == b.value < -180 * Scale \/ b.value > 180 * Scale

\* C3: a location that is not exactly two comma-separated numeric components
\* makes process_location raise InvalidCoordinateError: no other error and no
\* result.
C3_MalformedLocationRejected ==
    (Processed /\ ~WellFormed(last.location))
    => /\ last.outcome = "InvalidCoordinateError"
       /\ last.error.kind = "InvalidCoordinateError"
       /\ ~last.result.returned

\* "90," has been rejected by a service whose index is built.
C3_Witness ==
    /\ Processed /\ spatial_index.initialized
    /\ last.location = <<"9", "0", ",">>
    /\ ~WellFormed(last.location)
    /\ last.outcome = "InvalidCoordinateError"

\* C4: for a well-formed location, process_location raises
\* InvalidCoordinateError exactly when the latitude is outside [-90, 90] or the
\* longitude outside [-180, 180]; the message names the latitude when the
\* latitude is out of range and the longitude when only the longitude is; a
\* location in range, the bounds included, reaches get_elevation with the two
\* values.
C4_RangeValidation ==
    Processed
    => \A a, b \in Components :
          WellFormedAs(last.location, a, b)
          => /\ (last.outcome = "InvalidCoordinateError")
                    <=> (LatitudeOutOfRange(a) \/ LongitudeOutOfRange(b))
             /\ LatitudeOutOfRange(a)
                    => last.error.message = "Invalid latitude"
             /\ (~LatitudeOutOfRange(a) /\ LongitudeOutOfRange(b))
                    => last.error.message = "Invalid longitude"
             /\ (~LatitudeOutOfRange(a) /\ ~LongitudeOutOfRange(b))
                    => (/\ last.lookups = 1
                        /\ last.latitude = a.value
                        /\ last.longitude = b.value)

\* "-90,180" has been accepted and looked up.
C4_Witness ==
    /\ Processed /\ spatial_index.initialized
    /\ last.location = <<"-", "9", "0", ",", "1", "8", "0">>
    /\ last.lookups = 1
    /\ last.latitude = -90 * Scale /\ last.longitude = 180 * Scale
    /\ last.outcome = "ElevationNotFoundError"

\* C5: for a well-formed location in range, whitespace around the components
\* or not, process_location calls get_elevation with the two parsed values in
\* that order; when that returns, the result holds the two values as latitude
\* and longitude and the returned (and now cached) value as elevation.
C5_ResultOfValidLocation ==
    Processed
    => \A a, b \in Components :
          (/\ WellFormedAs(last.location, a, b)
           /\ ~LatitudeOutOfRange(a) /\ ~LongitudeOutOfRange(b))
          => /\ last.lookups = 1
             /\ last.latitude = a.value /\ last.longitude = b.value
             /\ last.result.returned <=> last.outcome = "ok"
             /\ last.outcome = "ok"
                    => (/\ last.result.latitude = a.value
                        /\ last.result.longitude = b.value
                        /\ last.result.elevation = last.value
                        /\ cache # <<>>
                        /\ cache[Len(cache)] =
                               [key |-> <<a.value, b.value>>, value |-> last.value])

\* " 50.5 ,0.55" has returned (50.5, 0.55, 150).
C5_Witness ==
    /\ Processed
    /\ last.location = <<" ", "5", "0", ".", "5", " ", ",", "0", ".", "5", "5">>
    /\ last.outcome = "ok"
    /\ last.result = ElevationResult(5050, 55, 150)

(***************************************************************************)
(* Properties of the application, checked under SpecApp.                   *)
(***************************************************************************)
Answered == response # NoResponse

AllDone == \A i \in DOMAIN tasks : tasks[i].pc = "done"

AllReturned == \A i \in DOMAIN tasks : tasks[i].pc = "done" /\ tasks[i].outcome = "ok"

\* The threads that are inside an operation on the cache: between the
\* membership test and the read of a get, or between the eviction and the
\* store of a put.
InsideCache == {i \in DOMAIN tasks : tasks[i].pc \in {"hit", "store"}}

\* C14: the operations of the threads on the shared cache exclude each other:
\* at most one thread is inside one at a time, so no read misses a key its
\* test has just found, the cache holds at most cache_max_size entries and
\* holds no key twice.
C14_CacheOperationsExclusive ==
    /\ Cardinality(InsideCache) <= 1
    /\ \A i \in DOMAIN tasks : tasks[i].outcome # "KeyError"
    /\ Len(cache) <= cache_max_size
    /\ \A j, k \in 1..Len(cache) : j # k => cache[j].key # cache[k].key

\* C15: once a request is answered and its tasks have ended, the answer holds
\* the result of every location that succeeded, whatever happened to the
\* others.
C15_EachLocationHasItsOutcome ==
    (Answered /\ AllDone)
    => \A i \in DOMAIN tasks :
          tasks[i].outcome = "ok"
          => \E k \in DOMAIN response.results : response.results[k] = tasks[i].result

\* What the fixture holds at the three locations inside it.
Expected(location) ==
    CASE location = In005 -> ElevationResult(5050, 5, 100)
      [] location = In055 -> ElevationResult(5050, 55, 150)
      [] location = In095 -> ElevationResult(5050, 95, 190)

\* C16: when every location of a request has succeeded, the answer is 200 with
\* one result per location, and results[i] is the result for locations[i], in
\* whatever order the tasks ended.
C16_ResultsInInputOrder ==
    (Answered /\ AllReturned)
    => /\ response.status = 200
       /\ Len(response.results) = Len(tasks)
       /\ \A i \in DOMAIN tasks : response.results[i] = Expected(tasks[i].location)

\* A request for two different locations has been answered in their order
\* although the second task ended first.
C16_Witness ==
    /\ Answered /\ AllReturned /\ response.status = 200
    /\ Len(tasks) = 2 /\ tasks[1].location # tasks[2].location
    /\ finished = <<2, 1>>
    /\ response.results = <<Expected(tasks[1].location), Expected(tasks[2].location)>>

\* C17: the answer is 200 with the results exactly when every location
\* succeeded; otherwise the first exception raised decides it:
\* InvalidCoordinateError gives 400, ElevationNotFoundError 404 and
\* ElevationReadError 500, each with the exception's message as detail.
C17_StatusOfEachOutcome ==
    Answered
    => /\ response.status = 200 <=> AllReturned
       /\ AllReturned => response.results = [i \in DOMAIN tasks |-> tasks[i].result]
       /\ \A k \in 1..Len(finished) :
             (/\ tasks[finished[k]].outcome # "ok"
              /\ \A j \in 1..(k - 1) : tasks[finished[j]].outcome = "ok")
             => LET error == tasks[finished[k]].error
                IN  /\ error.kind = "InvalidCoordinateError"
                          => response.status = 400
                    /\ error.kind = "ElevationNotFoundError"
                          => response.status = 404
                    /\ error.kind = "ElevationReadError"
                          => response.status = 500
                    /\ error.kind \in Caught
                          => (response.detail = error.message /\ response.results = <<>>)

\* A request whose second location has no data, and ended first, has been
\* answered 404 with that error's message.
C17_Witness ==
    /\ Answered /\ response.status = 404
    /\ response.detail = "Elevation data not found"
    /\ Len(tasks) = 2 /\ finished = <<2, 1>>
    /\ tasks[2].outcome = "ElevationNotFoundError"
    /\ tasks[1].outcome = "InvalidCoordinateError"

\* C20: in an application whose build_or_load_index raised IndexBuildError the
\* lifespan has failed: the application is not serving, no request has been
\* taken and none answered.
C20_NoServingAfterFailedBuild ==
    (last.op = "build_or_load_index" /\ last.outcome = "IndexBuildError")
    => /\ app = "failed"
       /\ tasks = <<>> /\ finished = <<>>
       /\ ~Answered

\* The startup has failed on a missing tile directory.
C20_Witness ==
    /\ last.op = "build_or_load_index" /\ last.outcome = "IndexBuildError"
    /\ ~tif_directory /\ ~spatial_index.initialized
    /\ app = "failed"

\* C26: a thread that has found its key in the cache (line 118) ends its
\* call, whatever the other threads do to the cache before its read (line
\* 119), with the value or at worst with one of the three errors a lookup
\* may raise.
C26_CacheHitCompletes ==
    [][\A i \in DOMAIN tasks :
          (tasks[i].pc = "hit" /\ i \in DOMAIN tasks' /\ tasks'[i].pc = "done")
          => tasks'[i].outcome \in {"ok", "IndexBuildError", "ElevationReadError",
                                    "ElevationNotFoundError"}]_vars

\* What get_elevation reads from the tile files for a key, the cache left
\* aside.
FromTiles(key) ==
    ReadMatches(<<>>,
                Intersection(spatial_index.entries, key[2], key[1], key[2], key[1]),
                key, key[1], key[2])

\* C27: in every state, each entry of the cache holds, for its key, the
\* value an uncached get_elevation reads from the tiles for that key, and
\* so does every result a task has returned, from the cache or not.
C27_CacheHoldsTheTileValues ==
    /\ \A k \in DOMAIN cache :
          \A r \in FromTiles(cache[k].key) :
              r.outcome = "ok" /\ r.value = cache[k].value
    /\ \A i \in DOMAIN tasks :
          (tasks[i].pc = "done" /\ tasks[i].outcome = "ok")
          => \A r \in FromTiles(<<tasks[i].latitude, tasks[i].longitude>>) :
                r.outcome = "ok" /\ r.value = tasks[i].elevation

\* Two threads have missed on the same key: the first has stored its value
\* and returned, the second is about to store its own on top of it.
C27_Witness ==
    /\ Len(tasks) = 2 /\ tasks[1].location = tasks[2].location
    /\ tasks[1].pc = "done" /\ tasks[1].outcome = "ok"
    /\ tasks[2].pc = "store"
    /\ CacheContains(cache, <<tasks[2].latitude, tasks[2].longitude>>)
    /\ Len(cache) = 2

\* C31: the answer to a request does not depend on the order in which its
\* tasks ended: when the request is answered and its tasks have ended, the
\* answer is the one each of its failed locations calls for, whichever of
\* them raised first.
C31_ResponseIndependentOfCompletionOrder ==
    (Answered /\ AllDone)
    => \A i \in Awaited :
          (TaskFailed(i) /\ tasks[i].error.kind \in Caught)
          => response = ExceptionResponse(tasks[i].error)

(***************************************************************************)
(* Properties of the executor, checked under SpecPool and SpecPoolFair.    *)
(***************************************************************************)
\* The tasks a thread of the executor is running process_location for.
Executing == {i \in DOMAIN tasks : tasks[i].pc \in {"hit", "miss", "store"}}

\* The ways a call of process_location ends.
Completions ==
    {"ok", "InvalidCoordinateError", "ElevationNotFoundError",
     "ElevationReadError", "IndexBuildError", "KeyError"}

\* C28: under fair scheduling of the threads every request is answered, with
\* the full list of results or with one error, and every task submitted to
\* the executor, in a request of more locations than max_workers too, is
\* run and ends.
C28_EveryBatchAnswered ==
    /\ (tasks # <<>> /\ ~Answered) ~> Answered
    /\ ~AllDone ~> AllDone
    /\ [](Answered
            => \/ /\ response.status = 200
                  /\ Len(response.results) = Cardinality(Awaited)
               \/ /\ response.status \in {400, 404, 500}
                  /\ response.results = <<>>)

\* A request of max_workers + 1 locations has been answered in full.
C28_Witness ==
    /\ Answered /\ response.status = 200
    /\ Cardinality(Awaited) = max_workers + 1
    /\ Len(response.results) = max_workers + 1
    /\ AllDone

\* C29: in every state at most max_workers tasks are being executed, the
\* tasks of an earlier request that are still in the executor included, and
\* a queued task is started only in a state where fewer are.
C29_AtMostMaxWorkersExecuting ==
    /\ [](Cardinality(Executing) <= max_workers)
    /\ [][\A i \in DOMAIN tasks :
             (tasks[i].pc = "queued" /\ i \in DOMAIN tasks'
                 /\ tasks'[i].pc # "queued")
             => Cardinality(Executing) < max_workers]_vars

\* All threads are busy, one of them with a task of a request that has been
\* answered, and a task of the next request waits in the queue.
C29_Witness ==
    /\ Cardinality(Executing) = max_workers
    /\ \E i \in Executing : ~tasks[i].awaited
    /\ \E k \in Awaited : tasks[k].pc = "queued" /\ ~Running(k)

\* C30: once a task has raised, every other task in the executor still ends,
\* and ends as a call of process_location does, not cancelled; one that has
\* read its value stores it as the most recently used entry of the cache
\* when it ends, and the answer already given stays as it is.
C30_OtherTasksRunToCompletion ==
    /\ (~AllDone /\ \E j \in DOMAIN tasks : TaskFailed(j))
          ~> (AllDone /\ \A i \in DOMAIN tasks : tasks[i].outcome \in Completions)
    /\ [][\A i \in DOMAIN tasks :
             (i \in DOMAIN tasks' /\ tasks[i].pc # "done" /\ tasks'[i].pc = "done")
             => /\ tasks'[i].outcome \in Completions
                /\ tasks[i].pc = "store"
                      => /\ tasks'[i].outcome = "ok"
                         /\ cache' # <<>>
                         /\ cache'[Len(cache')] =
                                [key |-> <<tasks[i].latitude, tasks[i].longitude>>,
                                 value |-> tasks'[i].elevation]
                /\ Answered => response' = response]_vars

\* The request has been answered 400 for its first location while the task
\* of another location, its value read, is about to store it in the cache.
C30_Witness ==
    /\ Answered /\ response.status = 400
    /\ \E i \in Awaited :
          /\ tasks[i].pc = "store"
          /\ ~CacheContains(cache, <<tasks[i].latitude, tasks[i].longitude>>)

(***************************************************************************)
(* Properties of the lifespan, checked under SpecLifespanFair.             *)
(***************************************************************************)
\* C32: shutdown is called only by an application that has built its index
\* and has answered the requests it took; it returns at once and leaves the
\* tasks in the executor as they are, and they still end as calls of
\* process_location end; after it no task is added to the executor.
C32_ShutdownLeavesLookupsRunning ==
    /\ [][(app # "stopped" /\ app' = "stopped")
            => /\ app = "serving"
               /\ tasks' = tasks /\ cache' = cache /\ response' = response]_vars
    /\ [](app = "stopped"
            => /\ spatial_index.initialized
               /\ tasks = <<>> \/ Answered)
    /\ [][app = "stopped"
            => /\ app' = "stopped"
               /\ Len(tasks') = Len(tasks)
               /\ \A i \in DOMAIN tasks :
                     /\ tasks'[i].location = tasks[i].location
                     /\ (tasks[i].pc # "done" /\ tasks'[i].pc = "done")
                           => tasks'[i].outcome \in Completions]_vars
    /\ (app = "stopped" /\ ~AllDone)
          ~> (/\ app = "stopped" /\ AllDone
              /\ \A i \in DOMAIN tasks : tasks[i].outcome \in Completions)

\* shutdown has returned while a thread of the executor is reading a tile
\* for a lookup or is about to store its value.
C32_Witness ==
    /\ app = "stopped"
    /\ \E i \in DOMAIN tasks : tasks[i].pc \in {"miss", "store"}

(***************************************************************************)
(* Properties of _safe_extract, checked under SpecExtract.                 *)
(***************************************************************************)
\* The member's path, joined to the destination, has components that do not
\* begin with the destination's components.
Outside(destination, member) ==
    LET d == Resolved(<<>>, Split(PathJoin(Cwd, destination), "/"))
        m == Resolved(<<>>, Split(PathJoin(PathJoin(Cwd, destination), member), "/"))
    IN  ~(Len(d) <= Len(m) /\ SubSeq(m, 1, Len(d)) = d)

OutsideMembers ==
    {k \in 1..Len(zip_file.namelist) :
        Outside(zip_file.destination, zip_file.namelist[k])}

\* C33: _safe_extract is all-or-nothing with respect to path traversal.  If
\* any member of the archive resolves outside the destination directory, the
\* call raises ValueError and no member has been extracted; members are
\* extracted only when every member resolves inside the destination, and
\* then every file written lies inside the destination.
C33_ExtractionAllOrNothing ==
    extraction # NoExtraction
    => /\ OutsideMembers # {}
          => /\ extraction.outcome = "ValueError"
             /\ extraction.written = {}
       /\ extraction.written # {} => OutsideMembers = {}
       /\ OutsideMembers = {}
          => /\ extraction.outcome = "ok"
             /\ \A path \in extraction.written :
                   StartsWith(path, RealPath(zip_file.destination) \o <<"/">>)
             /\ (extraction.written # {})
                <=> \E k \in 1..Len(zip_file.namelist) :
                       zip_file.namelist[k][Len(zip_file.namelist[k])] # "/"

\* An archive whose first member is a file inside the destination and whose
\* second member leaves it: the call raised ValueError for the second member
\* and wrote nothing.
C33_Witness ==
    /\ Len(zip_file.namelist) = 2
    /\ zip_file.namelist[1] = <<"a">>
    /\ OutsideMembers = {2}
    /\ extraction.outcome = "ValueError"
    /\ extraction.member = zip_file.namelist[2]
    /\ extraction.written = {}

(***************************************************************************)
(* Properties of the walk of _index_tif_files, checked under SpecBuild.    *)
(***************************************************************************)
\* The files the walk has visited so far.
Visited == SubSeq(tif_files, 1, Len(tif_files) - Len(walk.files))

\* C34: within one index build the tile ids are assigned sequentially.  At
\* every point of the walk, with k files inserted, the k-th inserted entry
\* has id k, so the ids are exactly 1..k and each is used once; the counter
\* stands at k, the number of visited files that could be opened, so a file
\* that was skipped has consumed no id.
C34_IdsSequentialWithinBuild ==
    walk.active
    => /\ \A k \in 1..Len(spatial_index.entries) : spatial_index.entries[k].id = k
       /\ index_counter = Len(spatial_index.entries)
       /\ Len(spatial_index.entries)
             = Len(SelectSeq(Visited, LAMBDA f : file_state[f] # "unopenable"))
       /\ \A k \in 1..Len(spatial_index.entries) :
             spatial_index.entries[k].obj
               = SelectSeq(Visited, LAMBDA f : file_state[f] # "unopenable")[k]

\* The walk skipped its first file, which could not be opened, and then
\* inserted the second one, with id 1.
C34_Witness ==
    /\ walk.active
    /\ Len(Visited) = 2
    /\ file_state[Visited[1]] = "unopenable"
    /\ Len(spatial_index.entries) = 1
    /\ spatial_index.entries[1].obj = Visited[2]
    /\ spatial_index.entries[1].id = 1

(***************************************************************************)
(* Properties of generate_all_tiles, checked under SpecTiles.              *)
(***************************************************************************)
\* The signed value of a corner coordinate of a name: a letter and three
\* digits, north and east positive.
CornerValue(corner) ==
    IF corner[1] \in {"N", "E"} THEN Decimal(SubSeq(corner, 2, 4))
    ELSE 0 - Decimal(SubSeq(corner, 2, 4))

\* The hemisphere letters the returned names give to coordinate 0, at the
\* positions of the start (first) and of the end (first + 9) corner.
LettersOfZero(first) ==
    {name[first] : name \in {n \in Range(grid.tile_names) :
                                SubSeq(n, first + 1, first + 3) = <<"0", "0", "0">>}}
    \cup {name[first + 9] : name \in {n \in Range(grid.tile_names) :
                                SubSeq(n, first + 10, first + 12) = <<"0", "0", "0">>}}

\* The cells of the grid: south-west corners from latitude 85 down to -85
\* and from longitude -180 up to 175.
GridCells ==
    {<<85 - TILE_STEP * i, TILE_STEP * j - 180>> : i \in 0..34, j \in 0..71}

TileCount ==
    /\ Len(grid.tile_names) = 2520
    /\ Cardinality(Range(grid.tile_names)) = 2520

TileCornersOneStepApart ==
    /\ \A name \in Range(grid.tile_names) :
          /\ Len(name) = 17 /\ name[9] = "_"
          /\ CornerValue(SubSeq(name, 10, 13))
                = CornerValue(SubSeq(name, 1, 4)) + TILE_STEP
          /\ CornerValue(SubSeq(name, 14, 17))
                = CornerValue(SubSeq(name, 5, 8)) + TILE_STEP
    /\ {<<CornerValue(SubSeq(name, 1, 4)), CornerValue(SubSeq(name, 5, 8))>> :
            name \in Range(grid.tile_names)} = GridCells

\* C35: generate_all_tiles returns one distinct name for each 5-degree cell
\* (latitude 85 down to -85, longitude -180 up to 175, 2520 names), of the
\* form <start>_<end> with end = start + step on both axes; the list
\* contains the name N060W005_N065E000, and a corner at latitude 0 or at
\* longitude 0 has one hemisphere letter, whether it is the start or the end
\* corner of a name.  (Names are only appended, so the names of the list
\* under construction are names of the returned list.)
C35_TileNames ==
    /\ grid.returned
       => /\ TileCount
          /\ TileCornersOneStepApart
          /\ <<"N", "0", "6", "0", "W", "0", "0", "5", "_",
               "N", "0", "6", "5", "E", "0", "0", "0">> \in Range(grid.tile_names)
    /\ Cardinality(LettersOfZero(1)) <= 1
    /\ Cardinality(LettersOfZero(5)) <= 1

====
